---- MODULE Spec2Model ----
(***************************************************************************)
(* TrustMonitor hardware abstraction layer: device lifecycle, the DHT11    *)
(* rate-limited retrying read, the RGB LED indicator, the device manager,  *)
(* the TrustMonitorHAL facade and the HALSensorMonitor loop.               *)
(*                                                                         *)
(* Every method of the source is an operator that takes the object's state *)
(* and the method's inputs and returns the new state with the return value *)
(* and a trace of the hardware operations it issued.  Actions apply whole  *)
(* methods.  Times are whole seconds; temperature and humidity are levels  *)
(* 0..MaxLevel.                                                            *)
(***************************************************************************)
EXTENDS Integers, Sequences, FiniteSets, TLC

\* ------------------------------------------------------------------ bounds
MaxLevel == 2
MaxRetries == 2
MaxDelay == 1
MaxInterval == 2
MaxTime == 2
MaxObjects == 4
MaxBlinks == 2
MaxCycles == 2
HalfBrightness == 50

\* ------------------------------------------------------- program constants
DefaultMaxRetries == 3
DefaultRetryDelay == 2
DefaultMinReadInterval == 2
DefaultBrightness == 100
DefaultBlinks == 3
BreathSteps == 20

\* Python's None for numbers, and the empty dict.
None == 0 - 1
EmptyMap == [k \in {} |-> None]

Levels == 0 .. MaxLevel

\* x or d: None and 0 are falsy.
OrDefault(x, d) == IF x = None \/ x = 0 THEN d ELSE x

Max(a, b) == IF a >= b THEN a ELSE b

\* The process clock starts late enough that a fresh device (last_reading_time
\* = 0) is never rate-limited: time.time() is seconds since 1970.
StartTime == Max(MaxInterval, DefaultMinReadInterval)

\* ------------------------------------------------------------ IHALDevice
dict_get(d, k) == IF k \in DOMAIN d THEN d[k] ELSE None

dict_update(d, e) ==
    [k \in (DOMAIN d) \cup (DOMAIN e) |-> IF k \in DOMAIN e THEN e[k] ELSE d[k]]

Channels == {"red", "green", "blue"}
AllOff == [c \in Channels |-> 0]

\* A device object.  One record shape serves the three classes; a class
\* ignores the other classes' fields.
IHALDevice_init(device_id, device_type) ==
    [ device_id |-> device_id,
      device_type |-> device_type,
      status |-> "uninitialized",
      config |-> EmptyMap,
      last_error |-> "None",
      \* DHT11Sensor
      dht |-> FALSE,
      max_retries |-> DefaultMaxRetries,
      retry_delay |-> DefaultRetryDelay,
      last_reading_time |-> 0,
      min_read_interval |-> DefaultMinReadInterval,
      \* RGBLEDIndicator
      pwm_objects |-> {},
      current_color |-> "off",
      current_state |-> "off",
      brightness |-> DefaultBrightness,
      duty |-> AllOff ]

\* set_config that also marks the device Ready.
IHALDevice_set_config_Resets(dev, config) ==
    [dev EXCEPT !.config = dict_update(dev.config, config), !.status = "ready"]

IHALDevice_set_config(dev, config) ==
    [dev EXCEPT !.config = dict_update(dev.config, config)]

\* get_config that hands out the device's own mapping.
IHALDevice_get_config_NoCopy(dev, key) ==
    IF key # "" THEN dict_get(dev.config, key)
    ELSE [alias |-> TRUE, value |-> dev.config]

\* get_config(key): the value under key, None when there is none; with no
\* key or an empty one (key ""), a new mapping with the same entries.
\* `alias` is whether the mapping handed out is the device's own object.
IHALDevice_get_config(dev, key) ==
    IF key # "" THEN dict_get(dev.config, key)
    ELSE [alias |-> FALSE, value |-> dev.config]

IHALDevice_set_error(dev, error) ==
    [dev EXCEPT !.last_error = error, !.status = "error"]

\* ------------------------------------------------------------ DHT11Sensor
\* One raw bus read: dht.temperature, dht.humidity, or a raised error.
Reading(t, h) == [temp |-> t, hum |-> h, exc |-> FALSE]
BusRaises == [temp |-> None, hum |-> None, exc |-> TRUE]
GoodReadings == {Reading(t, h) : t \in Levels, h \in Levels}
BadReadings == {Reading(None, None), Reading(0, None), BusRaises}

\* What the bus answers to the successive raw reads of one call: the reads
\* the call can make are failures up to the first complete reading.
RECURSIVE FailRuns(_)
FailRuns(n) ==
    IF n = 0 THEN {<<>>}
    ELSE LET shorter == FailRuns(n - 1)
         IN shorter \cup {Append(s, b) : s \in {r \in shorter : Len(r) = n - 1}, b \in BadReadings}

BusScripts(n, good) ==
    {s \in FailRuns(n) : Len(s) = n}
      \cup {Append(s, g) : s \in {r \in FailRuns(n) : Len(r) < n}, g \in good}

\* Two complete readings that differ in both values.
TwoReadings == {Reading(0, 1), Reading(MaxLevel, 0)}

\* The complete readings the monitor is shown: every temperature at the
\* lowest humidity, and the highest humidity.
MonitorReadings == {Reading(l, 0) : l \in Levels} \cup {Reading(0, MaxLevel)}

\* The scripts by the largest number of reads a call makes.
ScriptTable ==
    [n \in 1 .. Max(MaxRetries, DefaultMaxRetries) |->
        [good \in {TwoReadings, MonitorReadings, GoodReadings} |-> BusScripts(n, good)]]

\* The bus keeps reporting missing values past the end of a script.
RawAt(script, i) == IF i <= Len(script) THEN script[i] ELSE Reading(None, None)

DHT11Sensor_init(device_id) == IHALDevice_init(device_id, "sensor")

\* _read_raw_values: simulated values without the DHT library; otherwise
\* the bus values, a pair of None when either is missing or the bus raises.
DHT11Sensor_read_raw_values(dht_available, raw) ==
    IF ~dht_available THEN [temp |-> raw.temp, hum |-> raw.hum]
    ELSE IF raw.exc THEN [temp |-> None, hum |-> None]
    ELSE IF raw.temp # None /\ raw.hum # None THEN [temp |-> raw.temp, hum |-> raw.hum]
    ELSE [temp |-> None, hum |-> None]

IsComplete(v) == v.temp # None /\ v.hum # None

DHT11Sensor_test_sensor(dht_available, raw) ==
    IsComplete(DHT11Sensor_read_raw_values(dht_available, raw))

\* initialize(config): hw_ok is whether board/adafruit_dht accept the pin,
\* raw the answer of the initial test read.
DHT11Sensor_initialize(dev, config, dht_available, hw_ok, raw) ==
    LET d1 == IF DOMAIN config # {} THEN IHALDevice_set_config(dev, config) ELSE dev
        d2 == [d1 EXCEPT
                 !.max_retries = OrDefault(IHALDevice_get_config(d1, "max_retries"), DefaultMaxRetries),
                 !.retry_delay = OrDefault(IHALDevice_get_config(d1, "retry_delay"), DefaultRetryDelay),
                 !.min_read_interval =
                     OrDefault(IHALDevice_get_config(d1, "min_read_interval"), DefaultMinReadInterval)]
    IN IF ~dht_available THEN [dev |-> [d2 EXCEPT !.status = "ready"], ret |-> TRUE, raised |-> FALSE]
       ELSE IF ~hw_ok THEN
           [dev |-> IHALDevice_set_error(d2, "hardware"), ret |-> FALSE, raised |-> FALSE]
       ELSE LET d3 == [d2 EXCEPT !.dht = TRUE]
            IN IF DHT11Sensor_test_sensor(dht_available, raw)
               THEN [dev |-> [d3 EXCEPT !.status = "ready"], ret |-> TRUE, raised |-> FALSE]
               ELSE [dev |-> [d3 EXCEPT !.status = "error"], ret |-> FALSE, raised |-> FALSE]

\* Variant: a cleanup that leaves the status as it is.
DHT11Sensor_cleanup_KeepsStatus(dev) ==
    [dev |-> [dev EXCEPT !.dht = FALSE], ret |-> TRUE, raised |-> FALSE]

DHT11Sensor_cleanup(dev) ==
    [dev |-> [dev EXCEPT !.dht = FALSE, !.status = "uninitialized"], ret |-> TRUE, raised |-> FALSE]

\* Variant: a wait after the last attempt too.
WaitsBeforeRetry_Always(attempt, max_retries) == TRUE

\* Variant: the loop stays at the same attempt.
NextAttempt_Same(attempt) == attempt

\* The retry loop's counter: for attempt in range(max_retries).
NextAttempt(attempt) == attempt + 1

\* The retry loop's wait: after every attempt but the last.
WaitsBeforeRetry(attempt, max_retries) == attempt < max_retries - 1

\* Variant: the loop makes every attempt and returns the first complete
\* reading it saw.
DHT11Sensor_read_with_retry_ToTheEnd(dev, dht_available, script, attempt) ==
    LET vals == [i \in 1 .. dev.max_retries |->
                    DHT11Sensor_read_raw_values(dht_available, RawAt(script, i))]
        good == {i \in 1 .. dev.max_retries : IsComplete(vals[i])}
        v == IF good = {} THEN [temp |-> None, hum |-> None]
             ELSE vals[CHOOSE i \in good : \A j \in good : i <= j]
    IN [temp |-> v.temp, hum |-> v.hum, reads |-> dev.max_retries,
        waits |-> dev.max_retries - 1, trace |-> <<>>]

\* _read_with_retry from attempt number `attempt` (0-based) on: the values,
\* and the raw reads and waits made, counted and in order.
RECURSIVE DHT11Sensor_read_with_retry(_, _, _, _)
DHT11Sensor_read_with_retry(dev, dht_available, script, attempt) ==
    IF attempt >= dev.max_retries
    THEN [temp |-> None, hum |-> None, reads |-> 0, waits |-> 0, trace |-> <<>>]
    ELSE LET v == DHT11Sensor_read_raw_values(dht_available, RawAt(script, attempt + 1))
         IN IF IsComplete(v)
            THEN [temp |-> v.temp, hum |-> v.hum, reads |-> 1, waits |-> 0, trace |-> <<"read">>]
            ELSE LET rest == DHT11Sensor_read_with_retry(dev, dht_available, script, attempt + 1)
                     w == WaitsBeforeRetry(attempt, dev.max_retries)
                 IN [rest EXCEPT !.reads = @ + 1,
                                 !.waits = @ + (IF w THEN 1 ELSE 0),
                                 !.trace = (IF w THEN <<"read", "wait">> ELSE <<"read">>) \o @]

\* Variant: no minimum interval.
RateLimited_Never(dev, current_time) == FALSE

\* The minimum-interval test of read_values.
RateLimited(dev, current_time) ==
    current_time - dev.last_reading_time < dev.min_read_interval

\* Variant: the time of an accepted read is not recorded.
NextLastReadingTime_Stale(dev, current_time, v) == dev.last_reading_time

\* Variant: a failed read is recorded like an accepted one.
NextLastReadingTime_Always(dev, current_time, v) == current_time

\* last_reading_time after the retry loop returned v.
NextLastReadingTime(dev, current_time, v) ==
    IF IsComplete(v) THEN current_time ELSE dev.last_reading_time

ValuesMap(v) == [temperature |-> v.temp, humidity |-> v.hum]

\* read_values() called at current_time: the returned mapping, the raw reads
\* and retry waits it made, and the seconds it slept.
DHT11Sensor_read_values(dev, current_time, dht_available, script) ==
    IF dev.status # "ready"
    THEN [dev |-> dev, ret |-> EmptyMap, reads |-> 0, waits |-> 0, slept |-> 0, trace |-> <<>>,
          limited |-> FALSE]
    ELSE IF RateLimited(dev, current_time)
    THEN [dev |-> dev, ret |-> EmptyMap, reads |-> 0, waits |-> 0, slept |-> 0, trace |-> <<>>,
          limited |-> TRUE]
    ELSE LET Then(v) ==
                 [dev |-> [dev EXCEPT !.last_reading_time = NextLastReadingTime(dev, current_time, v)],
                  ret |-> IF IsComplete(v) THEN ValuesMap(v) ELSE EmptyMap,
                  reads |-> v.reads, waits |-> v.waits, slept |-> v.waits * dev.retry_delay,
                  trace |-> v.trace, limited |-> FALSE]
         IN Then(DHT11Sensor_read_with_retry(dev, dht_available, script, 0))

\* read_value(sensor_type): one value of a read_values() call, None when the
\* device is not ready, the type is unknown or there is no new reading.
DHT11Sensor_read_value(dev, sensor_type, current_time, dht_available, script) ==
    IF dev.status # "ready" \/ sensor_type \notin {"temperature", "humidity"}
    THEN [dev |-> dev, ret |-> None, reads |-> 0, waits |-> 0, slept |-> 0, trace |-> <<>>,
          limited |-> FALSE]
    ELSE LET Then(r) == [r EXCEPT !.ret = dict_get(r.ret, sensor_type)]
         IN Then(DHT11Sensor_read_values(dev, current_time, dht_available, script))

\* -------------------------------------------------------- RGBLEDIndicator
LEDColors == {"red", "green", "blue", "yellow", "cyan", "magenta", "white", "off"}
LEDStates == {"off", "on", "blinking", "breathing", "error"}
ChannelOrder == <<"red", "green", "blue">>

RGBLEDIndicator_init(device_id) == IHALDevice_init(device_id, "indicator")

\* The channels holding a PWM object, in the order the dict iterates them.
PwmOrder(pwm_objects) == SelectSeq(ChannelOrder, LAMBDA c : c \in pwm_objects)

\* PinDriver calls applied in order; call number `fault` raises (0: none
\* does).  A write is <<channel, duty cycle>>.
RECURSIVE ApplyWrites(_, _, _)
ApplyWrites(duty, writes, fault) ==
    IF writes = <<>> \/ fault = 1 THEN duty
    ELSE ApplyWrites([duty EXCEPT ![writes[1][1]] = writes[1][2]], Tail(writes),
                     IF fault = 0 THEN 0 ELSE fault - 1)

Raises(writes, fault) == fault >= 1 /\ fault <= Len(writes)

Done(writes, fault) == IF Raises(writes, fault) THEN SubSeq(writes, 1, fault - 1) ELSE writes

\* initialize(config): channel number `fault` fails to set up (0: none).
RGBLEDIndicator_initialize(dev, config, gpio_available, fault) ==
    LET d1 == IF DOMAIN config # {} THEN IHALDevice_set_config(dev, config) ELSE dev
        d2 == [d1 EXCEPT !.brightness =
                   OrDefault(IHALDevice_get_config(d1, "brightness"), DefaultBrightness)]
        starts == [i \in 1 .. 3 |-> <<ChannelOrder[i], 0>>]
        made == {ChannelOrder[i] : i \in {j \in 1 .. 3 : fault = 0 \/ j < fault}}
    IN IF ~gpio_available
       THEN [dev |-> [d2 EXCEPT !.status = "ready"], ret |-> TRUE, raised |-> FALSE]
       ELSE LET d3 == [d2 EXCEPT !.pwm_objects = @ \cup made,
                                 !.duty = ApplyWrites(@, starts, fault)]
            IN IF Raises(starts, fault)
               THEN [dev |-> IHALDevice_set_error(d3, "hardware"), ret |-> FALSE, raised |-> FALSE]
               ELSE [dev |-> [d3 EXCEPT !.status = "ready"], ret |-> TRUE, raised |-> FALSE]

\* cleanup(): every PWM is stopped, faults of single pins are swallowed;
\* hw_ok is whether GPIO.cleanup() itself works.
RGBLEDIndicator_cleanup(dev, gpio_available, hw_ok) ==
    IF ~gpio_available
    THEN [dev |-> [dev EXCEPT !.status = "uninitialized"], ret |-> TRUE, raised |-> FALSE]
    ELSE IF ~hw_ok THEN [dev |-> [dev EXCEPT !.duty = AllOff], ret |-> FALSE, raised |-> FALSE]
    ELSE [dev |-> [dev EXCEPT !.pwm_objects = {}, !.duty = AllOff, !.current_color = "off",
                              !.current_state = "off", !.status = "uninitialized"],
          ret |-> TRUE, raised |-> FALSE]

\* clear() without the readiness test.
RGBLEDIndicator_clear_Unguarded(dev, gpio_available, fault) ==
    IF ~gpio_available
    THEN [dev |-> [dev EXCEPT !.current_color = "off", !.current_state = "off"],
          ret |-> TRUE, writes |-> <<>>]
    ELSE LET order == PwmOrder(dev.pwm_objects)
             zero == [i \in 1 .. Len(order) |-> <<order[i], 0>>]
             d1 == [dev EXCEPT !.duty = ApplyWrites(@, zero, fault)]
         IN IF Raises(zero, fault)
            THEN [dev |-> d1, ret |-> FALSE, writes |-> Done(zero, fault)]
            ELSE [dev |-> [d1 EXCEPT !.current_color = "off", !.current_state = "off"],
                  ret |-> TRUE, writes |-> zero]

\* clear() that leaves the recorded colour and mode as they were.
RGBLEDIndicator_clear_KeepsMode(dev, gpio_available, fault) ==
    IF dev.status # "ready" THEN [dev |-> dev, ret |-> FALSE, writes |-> <<>>]
    ELSE IF ~gpio_available THEN [dev |-> dev, ret |-> TRUE, writes |-> <<>>]
    ELSE LET order == PwmOrder(dev.pwm_objects)
             zero == [i \in 1 .. Len(order) |-> <<order[i], 0>>]
         IN [dev |-> [dev EXCEPT !.duty = ApplyWrites(@, zero, fault)],
             ret |-> ~Raises(zero, fault), writes |-> Done(zero, fault)]

\* clear(): the result, and the channel writes that were made.
RGBLEDIndicator_clear(dev, gpio_available, fault) ==
    IF dev.status # "ready" THEN [dev |-> dev, ret |-> FALSE, writes |-> <<>>]
    ELSE IF ~gpio_available
    THEN [dev |-> [dev EXCEPT !.current_color = "off", !.current_state = "off"],
          ret |-> TRUE, writes |-> <<>>]
    ELSE LET order == PwmOrder(dev.pwm_objects)
             zero == [i \in 1 .. Len(order) |-> <<order[i], 0>>]
             d1 == [dev EXCEPT !.duty = ApplyWrites(@, zero, fault)]
         IN IF Raises(zero, fault)
            THEN [dev |-> d1, ret |-> FALSE, writes |-> Done(zero, fault)]
            ELSE [dev |-> [d1 EXCEPT !.current_color = "off", !.current_state = "off"],
                  ret |-> TRUE, writes |-> zero]

\* The fixed additive mix of a colour.
Mix(color) ==
    CASE color = "red" -> {"red"}
      [] color = "green" -> {"green"}
      [] color = "blue" -> {"blue"}
      [] color = "yellow" -> {"red", "green"}
      [] color = "cyan" -> {"green", "blue"}
      [] color = "magenta" -> {"red", "blue"}
      [] color = "white" -> {"red", "green", "blue"}
      [] OTHER -> {}

\* Variant: every channel of the mix fully on, whatever the brightness.
DutyCycles_Full(color, brightness) ==
    [c \in Channels |-> IF c \in Mix(color) THEN DefaultBrightness ELSE 0]

DutyCycles(color, brightness) == [c \in Channels |-> IF c \in Mix(color) THEN brightness ELSE 0]

\* set_color that applies the colour without switching the channels off
\* first.
RGBLEDIndicator_set_color_NoZero(dev, color, brightness, gpio_available, fault) ==
    IF dev.status # "ready" THEN [dev |-> dev, ret |-> FALSE, writes |-> <<>>]
    ELSE LET b == IF brightness = None THEN dev.brightness ELSE brightness
             shown == [dev EXCEPT !.current_color = color,
                                  !.current_state = IF color # "off" THEN "on" ELSE "off"]
             order == PwmOrder(dev.pwm_objects \cap Mix(color))
             apply == [i \in 1 .. Len(order) |-> <<order[i], b>>]
         IN IF ~gpio_available THEN [dev |-> shown, ret |-> TRUE, writes |-> <<>>]
            ELSE IF Raises(apply, fault)
            THEN [dev |-> [dev EXCEPT !.duty = ApplyWrites(@, apply, fault)], ret |-> FALSE,
                  writes |-> Done(apply, fault)]
            ELSE [dev |-> [shown EXCEPT !.duty = ApplyWrites(@, apply, fault)], ret |-> TRUE,
                  writes |-> apply]

\* set_color(color, brightness): brightness None stands for the default.
RGBLEDIndicator_set_color(dev, color, brightness, gpio_available, fault) ==
    IF dev.status # "ready" THEN [dev |-> dev, ret |-> FALSE, writes |-> <<>>]
    ELSE LET b == IF brightness = None THEN dev.brightness ELSE brightness
             shown == [dev EXCEPT !.current_color = color,
                                  !.current_state = IF color # "off" THEN "on" ELSE "off"]
         IN IF ~gpio_available THEN [dev |-> shown, ret |-> TRUE, writes |-> <<>>]
            ELSE LET order == PwmOrder(dev.pwm_objects)
                     zero == [i \in 1 .. Len(order) |-> <<order[i], 0>>]
                     cycles == DutyCycles(color, b)
                     apply == [i \in 1 .. Len(order) |-> <<order[i], cycles[order[i]]>>]
                     writes == zero \o apply
                     duty == ApplyWrites(dev.duty, writes, fault)
                 IN IF Raises(writes, fault)
                    THEN [dev |-> [dev EXCEPT !.duty = duty], ret |-> FALSE,
                          writes |-> Done(writes, fault)]
                    ELSE [dev |-> [shown EXCEPT !.duty = duty], ret |-> TRUE, writes |-> writes]

\* The fault number left for the next PinDriver calls after n calls.
NextFault(fault, n) == IF fault = 0 \/ fault <= n THEN 0 ELSE fault - n

\* The for loop of blink_color with `times` rounds to go: set the colour,
\* sleep, clear, and sleep again unless the round is the last; the first call
\* that fails ends blink_color with False.  `steps` are the calls made.
RECURSIVE RGBLEDIndicator_blink_loop(_, _, _, _, _)
RGBLEDIndicator_blink_loop(dev, color, times, gpio_available, fault) ==
    IF times <= 0 THEN [dev |-> dev, ret |-> TRUE, writes |-> <<>>, steps |-> <<>>]
    ELSE LET round == <<"set", "hold", "clear">> \o (IF times > 1 THEN <<"hold">> ELSE <<>>)
             Cleared(on, c) ==
                 IF ~c.ret
                 THEN [dev |-> c.dev, ret |-> FALSE, writes |-> on.writes \o c.writes,
                       steps |-> <<"set", "hold", "clear">>]
                 ELSE LET rest == RGBLEDIndicator_blink_loop(
                                      c.dev, color, times - 1, gpio_available,
                                      NextFault(fault, Len(on.writes) + Len(c.writes)))
                      IN [rest EXCEPT !.writes = on.writes \o c.writes \o @,
                                      !.steps = round \o @]
             Shown(r) ==
                 IF ~r.ret
                 THEN [dev |-> r.dev, ret |-> FALSE, writes |-> r.writes, steps |-> <<"set">>]
                 ELSE Cleared(r, RGBLEDIndicator_clear(r.dev, gpio_available,
                                                       NextFault(fault, Len(r.writes))))
         IN Shown(RGBLEDIndicator_set_color(dev, color, None, gpio_available, fault))

\* blink_color that makes one round whatever `times` is.
RGBLEDIndicator_blink_color_Once(dev, color, times, gpio_available, fault) ==
    IF dev.status # "ready"
    THEN [dev |-> dev, ret |-> FALSE, writes |-> <<>>, steps |-> <<>>]
    ELSE LET Then(r) ==
                 IF ~r.ret THEN r
                 ELSE [r EXCEPT !.dev.current_state = "blinking"]
         IN Then(RGBLEDIndicator_blink_loop(dev, color, 1, gpio_available, fault))

\* blink_color(color, times, speed): the mode is recorded once every round
\* succeeded.
RGBLEDIndicator_blink_color(dev, color, times, gpio_available, fault) ==
    IF dev.status # "ready"
    THEN [dev |-> dev, ret |-> FALSE, writes |-> <<>>, steps |-> <<>>]
    ELSE LET Then(r) ==
                 IF ~r.ret THEN r
                 ELSE [r EXCEPT !.dev.current_state = "blinking"]
         IN Then(RGBLEDIndicator_blink_loop(dev, color, times, gpio_available, fault))

\* A ramp that starts at 0.
BreathBrightness_FromZero(i) ==
    IF i < BreathSteps THEN i * (100 \div BreathSteps)
    ELSE (BreathSteps * 2 - i) * (100 \div BreathSteps)

\* The brightness of step i of breath_color: up in steps of 5 to 100, then
\* down again.
BreathBrightness(i) ==
    IF i < BreathSteps THEN (i + 1) * (100 \div BreathSteps)
    ELSE (BreathSteps * 2 - i) * (100 \div BreathSteps)

\* The for loop of breath_color from step i on; `levels` are the
\* brightnesses set_color was called with.
RECURSIVE RGBLEDIndicator_breath_loop(_, _, _, _, _)
RGBLEDIndicator_breath_loop(dev, color, i, gpio_available, fault) ==
    IF i >= BreathSteps * 2 THEN [dev |-> dev, ret |-> TRUE, writes |-> <<>>, levels |-> <<>>]
    ELSE LET Then(r) ==
                 IF ~r.ret
                 THEN [dev |-> r.dev, ret |-> FALSE, writes |-> r.writes,
                       levels |-> <<BreathBrightness(i)>>]
                 ELSE LET rest == RGBLEDIndicator_breath_loop(r.dev, color, i + 1, gpio_available,
                                                             NextFault(fault, Len(r.writes)))
                      IN [rest EXCEPT !.writes = r.writes \o @,
                                      !.levels = <<BreathBrightness(i)>> \o @]
         IN Then(RGBLEDIndicator_set_color(dev, color, BreathBrightness(i), gpio_available,
                                           fault))

\* breath_color(color, speed): the ramp, then clear(), whose result is not
\* looked at.
RGBLEDIndicator_breath_color(dev, color, gpio_available, fault) ==
    IF dev.status # "ready"
    THEN [dev |-> dev, ret |-> FALSE, writes |-> <<>>, levels |-> <<>>]
    ELSE LET Cleared(ramp, c) ==
                 [dev |-> [c.dev EXCEPT !.current_state = "breathing"], ret |-> TRUE,
                  writes |-> ramp.writes \o c.writes, levels |-> ramp.levels]
             Then(r) ==
                 IF ~r.ret THEN r
                 ELSE Cleared(r, RGBLEDIndicator_clear(r.dev, gpio_available,
                                                       NextFault(fault, Len(r.writes))))
         IN Then(RGBLEDIndicator_breath_loop(dev, color, 0, gpio_available, fault))

\* set_state(state, color=..., brightness=...): times is 3 for blinking; a
\* state or colour outside the enumerations, and the state error, raise
\* inside the method and yield False.  No branch reads the brightness keyword.
RGBLEDIndicator_set_state(dev, state, color, brightness, gpio_available, fault) ==
    IF dev.status # "ready" \/ state \notin LEDStates
    THEN [dev |-> dev, ret |-> FALSE, writes |-> <<>>]
    ELSE IF state = "off" THEN RGBLEDIndicator_clear(dev, gpio_available, fault)
    ELSE IF state = "error" \/ color \notin LEDColors
    THEN [dev |-> dev, ret |-> FALSE, writes |-> <<>>]
    ELSE IF state = "on" THEN RGBLEDIndicator_set_color(dev, color, None, gpio_available, fault)
    ELSE IF state = "blinking"
    THEN RGBLEDIndicator_blink_color(dev, color, DefaultBlinks, gpio_available, fault)
    ELSE RGBLEDIndicator_breath_color(dev, color, gpio_available, fault)

\* self_test(): red, green, blue, then clear; the first failed set ends it.
RECURSIVE RGBLEDIndicator_test_colors(_, _, _, _)
RGBLEDIndicator_test_colors(dev, colors, gpio_available, fault) ==
    IF colors = <<>> THEN RGBLEDIndicator_clear(dev, gpio_available, fault)
    ELSE LET Then(r) ==
                 IF ~r.ret THEN [dev |-> r.dev, ret |-> FALSE, writes |-> r.writes]
                 ELSE LET rest == RGBLEDIndicator_test_colors(r.dev, Tail(colors), gpio_available,
                                                             NextFault(fault, Len(r.writes)))
                      IN [rest EXCEPT !.writes = r.writes \o @]
         IN Then(RGBLEDIndicator_set_color(dev, Head(colors), None, gpio_available, fault))

RGBLEDIndicator_self_test(dev, gpio_available, fault) ==
    IF dev.status # "ready" THEN [dev |-> dev, ret |-> FALSE, raised |-> FALSE]
    ELSE LET Then(r) == [dev |-> r.dev, ret |-> r.ret, raised |-> FALSE]
         IN Then(RGBLEDIndicator_test_colors(dev, <<"red", "green", "blue">>, gpio_available,
                                             fault))

\* A self-test that counts as a reading for the rate limit.
DHT11Sensor_self_test_Stamps(dev, dht_available, raw) ==
    IF dev.status # "ready" THEN [dev |-> dev, ret |-> FALSE, raised |-> FALSE, reads |-> 0]
    ELSE [dev |-> [dev EXCEPT !.last_reading_time = @ + 1],
          ret |-> IsComplete(DHT11Sensor_read_raw_values(dht_available, raw)),
          raised |-> FALSE, reads |-> 1]

\* self_test(): one raw read, and whether it brought both values.
DHT11Sensor_self_test(dev, dht_available, raw) ==
    IF dev.status # "ready" THEN [dev |-> dev, ret |-> FALSE, raised |-> FALSE, reads |-> 0]
    ELSE [dev |-> dev, ret |-> IsComplete(DHT11Sensor_read_raw_values(dht_available, raw)),
          raised |-> FALSE, reads |-> 1]

\* ------------------------------------------------- a third-party device
\* An IHALDevice implemented outside this repository: each lifecycle call
\* succeeds, reports failure, or raises, as `outcome` says.
StubDevice_init(device_id) == IHALDevice_init(device_id, "actuator")

StubDevice_initialize(dev, config, outcome) ==
    LET d1 == IF DOMAIN config # {} THEN IHALDevice_set_config(dev, config) ELSE dev
    IN CASE outcome = "ok" -> [dev |-> [d1 EXCEPT !.status = "ready"], ret |-> TRUE, raised |-> FALSE]
         [] outcome = "fail" ->
              [dev |-> IHALDevice_set_error(d1, "device"), ret |-> FALSE, raised |-> FALSE]
         [] OTHER -> [dev |-> d1, ret |-> FALSE, raised |-> TRUE]

StubDevice_cleanup(dev, outcome) ==
    CASE outcome = "ok" ->
           [dev |-> [dev EXCEPT !.status = "uninitialized"], ret |-> TRUE, raised |-> FALSE]
      [] outcome = "fail" -> [dev |-> dev, ret |-> FALSE, raised |-> FALSE]
      [] OTHER -> [dev |-> dev, ret |-> FALSE, raised |-> TRUE]

StubDevice_self_test(dev, outcome) ==
    CASE outcome = "ok" -> [dev |-> dev, ret |-> dev.status = "ready", raised |-> FALSE]
      [] outcome = "fail" -> [dev |-> dev, ret |-> FALSE, raised |-> FALSE]
      [] OTHER -> [dev |-> dev, ret |-> FALSE, raised |-> TRUE]

\* ------------------------------------------------- the hardware's answers
\* What the hardware answers during one lifecycle call on one device: the
\* sensor library (hw_ok) and its test read (raw), the PinDriver call that
\* raises (fault), a third-party device's outcome.
Answer(hw_ok, raw, fault, outcome) ==
    [hw_ok |-> hw_ok, raw |-> raw, fault |-> fault, outcome |-> outcome]

Calm == Answer(TRUE, Reading(0, 0), 0, "ok")

\* env: which hardware libraries were importable (DHT_AVAILABLE, GPIO_AVAILABLE).
AnswersFor(dev, env, faults) ==
    CASE dev.device_type = "sensor" ->
           IF env.dht
           THEN {Calm, [Calm EXCEPT !.hw_ok = FALSE], [Calm EXCEPT !.raw = Reading(None, None)]}
           ELSE {Calm}
      [] dev.device_type = "indicator" ->
           IF env.gpio THEN {[Calm EXCEPT !.fault = f] : f \in faults} ELSE {Calm}
      [] OTHER -> {[Calm EXCEPT !.outcome = o] : o \in {"ok", "fail", "raise"}}

\* Dynamic dispatch on the device's class.
Device_initialize(dev, config, env, a) ==
    CASE dev.device_type = "sensor" -> DHT11Sensor_initialize(dev, config, env.dht, a.hw_ok, a.raw)
      [] dev.device_type = "indicator" -> RGBLEDIndicator_initialize(dev, config, env.gpio, a.fault)
      [] OTHER -> StubDevice_initialize(dev, config, a.outcome)

Device_cleanup(dev, env, a) ==
    CASE dev.device_type = "sensor" -> DHT11Sensor_cleanup(dev)
      [] dev.device_type = "indicator" -> RGBLEDIndicator_cleanup(dev, env.gpio, a.hw_ok)
      [] OTHER -> StubDevice_cleanup(dev, a.outcome)

Device_self_test(dev, env, a) ==
    CASE dev.device_type = "sensor" -> DHT11Sensor_self_test(dev, env.dht, a.raw)
      [] dev.device_type = "indicator" -> RGBLEDIndicator_self_test(dev, env.gpio, a.fault)
      [] OTHER -> StubDevice_self_test(dev, a.outcome)

\* ------------------------------------------------------------- HALManager
\* The objects of the process are heap[1], heap[2], ...; w is the state of
\* the two process-wide singletons: the manager's registry `devices` (device
\* id to object) and `mgr_initialized`, the facade's `hal_devices` and
\* `hal_initialized`.
DeviceIds == <<"dht11_sensor", "aux", "rgb_led">>

\* The registry's ids in iteration order.  Every step of a bulk operation
\* touches only its own device's object.
Registered(devices) == SelectSeq(DeviceIds, LAMBDA id : id \in DOMAIN devices)

HALManager_init(heap) ==
    [heap |-> heap, devices |-> EmptyMap, mgr_initialized |-> FALSE,
     hal_devices |-> EmptyMap, hal_initialized |-> FALSE]

\* register_device cleaning up the device it replaces before replacing it.
HALManager_register_device_Cleanup(w, obj) ==
    LET id == w.heap[obj].device_id
        old == dict_get(w.devices, id)
        w1 == IF old \in {None, obj} THEN w
              ELSE [w EXCEPT !.heap[old].status = "uninitialized"]
    IN [w |-> [w1 EXCEPT !.devices = dict_update(@, [k \in {id} |-> obj])], ret |-> TRUE]

HALManager_register_device(w, obj) ==
    [w |-> [w EXCEPT !.devices = dict_update(@, [k \in {w.heap[obj].device_id} |-> obj])],
     ret |-> TRUE]

\* unregister_device(device_id): the device is cleaned up and then removed;
\* a cleanup that raises leaves it registered, and whatever a cleanup that
\* returns gives back is not looked at.
HALManager_unregister_device(w, device_id, env, a) ==
    IF device_id \notin DOMAIN w.devices
    THEN [w |-> w, ret |-> FALSE, cleaned |-> FALSE, cleanup_ok |-> FALSE]
    ELSE LET obj == w.devices[device_id]
             Then(r) ==
                 LET w1 == [w EXCEPT !.heap[obj] = r.dev]
                 IN IF r.raised
                    THEN [w |-> w1, ret |-> FALSE, cleaned |-> TRUE, cleanup_ok |-> FALSE]
                    ELSE [w |-> [w1 EXCEPT !.devices = [k \in DOMAIN @ \ {device_id} |-> @[k]]],
                          ret |-> TRUE, cleaned |-> TRUE, cleanup_ok |-> r.ret]
         IN Then(Device_cleanup(w.heap[obj], env, a))

HALManager_get_device(w, device_id) == dict_get(w.devices, device_id)

\* What initialize_all does with a device whose initialize raised.
InitializeRaised(dev, error) == IHALDevice_set_error(dev, error)

\* initialize_all reporting success as soon as one device succeeded.
AllSucceeded_Any(success_count, total_count) == success_count > 0

\* The overall result of initialize_all.
AllSucceeded(success_count, total_count) == success_count = total_count

\* The for loop of initialize_all over the ids still to do; `calls` lists
\* each initialize call made with what it returned.
RECURSIVE HALManager_initialize_loop(_, _, _, _, _)
HALManager_initialize_loop(w, ids, global_config, answers, env) ==
    IF ids = <<>> THEN [w |-> w, success_count |-> 0, calls |-> <<>>]
    ELSE LET id == Head(ids)
             obj == w.devices[id]
             device_config == IF id \in DOMAIN global_config THEN global_config[id] ELSE EmptyMap
             Then(r) ==
                 LET dev == IF r.raised THEN InitializeRaised(r.dev, "exception") ELSE r.dev
                     rest == HALManager_initialize_loop([w EXCEPT !.heap[obj] = dev], Tail(ids),
                                                        global_config, answers, env)
                 IN [rest EXCEPT !.success_count = @ + (IF ~r.raised /\ r.ret THEN 1 ELSE 0),
                                 !.calls = <<[id |-> id, ret |-> r.ret, raised |-> r.raised]>> \o @]
         IN Then(Device_initialize(w.heap[obj], device_config, env, answers[id]))

HALManager_initialize_all(w, global_config, answers, env) ==
    LET ids == Registered(w.devices)
        Then(r) ==
            LET ok == AllSucceeded(r.success_count, Len(ids))
            IN [w |-> [r.w EXCEPT !.mgr_initialized = ok], ret |-> ok, calls |-> r.calls]
    IN Then(HALManager_initialize_loop(w, ids, global_config, answers, env))

\* cleanup_all without the per-device try: the first cleanup that raises
\* ends the loop.
RECURSIVE HALManager_cleanup_loop_Abort(_, _, _, _)
HALManager_cleanup_loop_Abort(w, ids, answers, env) ==
    IF ids = <<>> THEN [w |-> w, calls |-> <<>>]
    ELSE LET id == Head(ids)
             obj == w.devices[id]
             Then(r) ==
                 LET w1 == [w EXCEPT !.heap[obj] = r.dev]
                     rest == IF r.raised THEN [w |-> w1, calls |-> <<>>]
                             ELSE HALManager_cleanup_loop_Abort(w1, Tail(ids), answers, env)
                 IN [rest EXCEPT !.calls = <<[id |-> id, ret |-> r.ret, raised |-> r.raised]>> \o @]
         IN Then(Device_cleanup(w.heap[obj], env, answers[id]))

RECURSIVE HALManager_cleanup_loop(_, _, _, _)
HALManager_cleanup_loop(w, ids, answers, env) ==
    IF ids = <<>> THEN [w |-> w, calls |-> <<>>]
    ELSE LET id == Head(ids)
             obj == w.devices[id]
             Then(r) ==
                 LET rest == HALManager_cleanup_loop([w EXCEPT !.heap[obj] = r.dev], Tail(ids),
                                                     answers, env)
                 IN [rest EXCEPT !.calls = <<[id |-> id, ret |-> r.ret, raised |-> r.raised]>> \o @]
         IN Then(Device_cleanup(w.heap[obj], env, answers[id]))

HALManager_cleanup_all(w, answers, env) ==
    LET Then(r) == [w |-> [r.w EXCEPT !.mgr_initialized = FALSE], ret |-> TRUE, calls |-> r.calls]
    IN Then(HALManager_cleanup_loop(w, Registered(w.devices), answers, env))

HALManager_get_all_status(w) ==
    [id \in DOMAIN w.devices |-> w.heap[w.devices[id]].status]

\* run_self_tests without the per-device try: the first self_test that
\* raises ends the loop.
RECURSIVE HALManager_self_test_loop_Abort(_, _, _, _)
HALManager_self_test_loop_Abort(w, ids, answers, env) ==
    IF ids = <<>> THEN [w |-> w, results |-> EmptyMap, calls |-> <<>>]
    ELSE LET id == Head(ids)
             obj == w.devices[id]
             Then(r) ==
                 LET w1 == [w EXCEPT !.heap[obj] = r.dev]
                     call == [id |-> id, ret |-> r.ret, raised |-> r.raised]
                 IN IF r.raised THEN [w |-> w1, results |-> EmptyMap, calls |-> <<call>>]
                    ELSE LET rest == HALManager_self_test_loop_Abort(w1, Tail(ids), answers, env)
                         IN [rest EXCEPT !.results = dict_update([k \in {id} |-> r.ret], @),
                                         !.calls = <<call>> \o @]
         IN Then(Device_self_test(w.heap[obj], env, answers[id]))

\* run_self_tests: the result map; a raising self_test counts as False.
\* `calls` lists each self_test call made with what it returned.
RECURSIVE HALManager_self_test_loop(_, _, _, _)
HALManager_self_test_loop(w, ids, answers, env) ==
    IF ids = <<>> THEN [w |-> w, results |-> EmptyMap, calls |-> <<>>]
    ELSE LET id == Head(ids)
             obj == w.devices[id]
             Then(r) ==
                 LET rest == HALManager_self_test_loop([w EXCEPT !.heap[obj] = r.dev], Tail(ids),
                                                       answers, env)
                 IN [rest EXCEPT !.results =
                         dict_update([k \in {id} |-> IF r.raised THEN FALSE ELSE r.ret], @),
                                 !.calls = <<[id |-> id, ret |-> r.ret, raised |-> r.raised]>> \o @]
         IN Then(Device_self_test(w.heap[obj], env, answers[id]))

HALManager_run_self_tests(w, answers, env) ==
    HALManager_self_test_loop(w, Registered(w.devices), answers, env)

\* -------------------------------------------------------- TrustMonitorHAL
\* default_config of initialize (pins and PWM frequencies go to the
\* PinDriver unread and are left out).
HALDefaultConfig ==
    [dht11_sensor |-> [pin |-> 17, max_retries |-> 3, retry_delay |-> 2, min_read_interval |-> 2],
     rgb_led |-> [brightness |-> 100]]

\* default_config merged with the configuration given.
MergedConfig(config) ==
    [id \in (DOMAIN HALDefaultConfig) \cup (DOMAIN config) |->
        IF id \in DOMAIN config
        THEN IF id \in DOMAIN HALDefaultConfig
             THEN dict_update(HALDefaultConfig[id], config[id])
             ELSE config[id]
        ELSE HALDefaultConfig[id]]

\* _register_default_devices: a fresh sensor and a fresh LED, configured,
\* registered with the manager and kept in the facade's own dict.
TrustMonitorHAL_register_default_devices(w, config) ==
    LET n == Len(w.heap)
        dht11 == IHALDevice_set_config(DHT11Sensor_init("dht11_sensor"), config["dht11_sensor"])
        rgb_led == IHALDevice_set_config(RGBLEDIndicator_init("rgb_led"), config["rgb_led"])
        w1 == [w EXCEPT !.heap = @ \o <<dht11, rgb_led>>]
        w2 == HALManager_register_device(w1, n + 1).w
        w3 == [w2 EXCEPT !.hal_devices = dict_update(@, [k \in {"dht11_sensor"} |-> n + 1])]
        w4 == HALManager_register_device(w3, n + 2).w
    IN [w4 EXCEPT !.hal_devices = dict_update(@, [k \in {"rgb_led"} |-> n + 2])]

\* The facade's flag after initialize_all returned success.
InitializedAfter(initialized, success) == IF success THEN TRUE ELSE initialized

TrustMonitorHAL_initialize(w, config, answers, env) ==
    LET default_config == MergedConfig(config)
        w1 == TrustMonitorHAL_register_default_devices(w, default_config)
        Then(r) ==
            [w |-> [r.w EXCEPT !.hal_initialized = InitializedAfter(@, r.ret)],
             ret |-> r.ret, calls |-> r.calls]
    IN Then(HALManager_initialize_all(w1, default_config, answers, env))

\* cleanup() that leaves the facade's flag and dict as they are.
TrustMonitorHAL_cleanup_KeepsFlag(w, answers, env) ==
    HALManager_cleanup_all(w, answers, env)

TrustMonitorHAL_cleanup(w, answers, env) ==
    LET Then(r) ==
            [w |-> [r.w EXCEPT !.hal_initialized = FALSE, !.hal_devices = EmptyMap],
             ret |-> r.ret, calls |-> r.calls]
    IN Then(HALManager_cleanup_all(w, answers, env))

IsSensor(w, obj) == obj # None /\ w.heap[obj].device_type = "sensor"
IsIndicator(w, obj) == obj # None /\ w.heap[obj].device_type = "indicator"

\* get_sensor_values(sensor_id): {sensor_id: values}, or {} without values.
TrustMonitorHAL_get_sensor_values(w, sensor_id, current_time, script, env) ==
    LET obj == HALManager_get_device(w, sensor_id)
        nothing == [w |-> w, ret |-> EmptyMap, reads |-> 0, waits |-> 0, slept |-> 0,
                    limited |-> FALSE]
    IN IF ~w.hal_initialized THEN nothing
       ELSE IF ~IsSensor(w, obj) THEN nothing
       ELSE LET Then(r) ==
                    [w |-> [w EXCEPT !.heap[obj] = r.dev],
                     ret |-> IF DOMAIN r.ret # {} THEN [k \in {sensor_id} |-> r.ret] ELSE EmptyMap,
                     reads |-> r.reads, waits |-> r.waits, slept |-> r.slept,
                     limited |-> r.limited]
            IN Then(DHT11Sensor_read_values(w.heap[obj], current_time, env.dht, script))

\* Whether set_indicator_state gets as far as the device.
FacadeReady(w) == w.hal_initialized

\* set_indicator_state(indicator_id, state, color=color, brightness=...);
\* `reached` is whether the device's set_state was called.
TrustMonitorHAL_set_indicator_state(w, indicator_id, state, color, brightness, fault, env) ==
    LET obj == HALManager_get_device(w, indicator_id)
    IN IF ~FacadeReady(w) \/ ~IsIndicator(w, obj)
       THEN [w |-> w, ret |-> FALSE, writes |-> <<>>, reached |-> FALSE]
       ELSE LET Then(r) ==
                    [w |-> [w EXCEPT !.heap[obj] = r.dev], ret |-> r.ret, writes |-> r.writes,
                     reached |-> TRUE]
            IN Then(RGBLEDIndicator_set_state(w.heap[obj], state, color, brightness, env.gpio,
                                              fault))

\* set_led_color(color, brightness) of the module, on the global facade.
set_led_color(w, color, brightness, fault, env) ==
    TrustMonitorHAL_set_indicator_state(w, "rgb_led", "on", color, brightness, fault, env)

\* clear_all_indicators(): clear() on each indicator of the facade's dict,
\* which only ever holds the sensor and the LED.
TrustMonitorHAL_clear_all_indicators(w, fault, env) ==
    LET obj == dict_get(w.hal_devices, "rgb_led")
    IN IF ~w.hal_initialized \/ ~IsIndicator(w, obj)
       THEN [w |-> w, ret |-> w.hal_initialized, writes |-> <<>>, reached |-> FALSE]
       ELSE LET Then(r) ==
                    [w |-> [w EXCEPT !.heap[obj] = r.dev], ret |-> r.ret, writes |-> r.writes,
                     reached |-> TRUE]
            IN Then(RGBLEDIndicator_clear(w.heap[obj], env.gpio, fault))

\* get_device_status(): every device's status, {} when not initialized.
TrustMonitorHAL_get_device_status(w) ==
    IF ~w.hal_initialized THEN EmptyMap ELSE HALManager_get_all_status(w)

TrustMonitorHAL_run_self_tests(w, answers, env) ==
    IF ~w.hal_initialized THEN [w |-> w, results |-> EmptyMap]
    ELSE HALManager_run_self_tests(w, answers, env)

\* ------------------------------------------------------- HALSensorMonitor
\* SensorConfig: the thresholds and the sensor and LED options read from the
\* environment when the monitor is constructed.
SensorConfig(tw, te, hw, he, retries, delay) ==
    [temp_warning |-> tw, temp_error |-> te, humidity_warning |-> hw, humidity_error |-> he,
     sensor_max_retries |-> retries, sensor_retry_delay |-> delay,
     hal_config |->
        [dht11_sensor |-> [pin |-> 17, max_retries |-> retries, retry_delay |-> delay,
                           min_read_interval |-> 2],
         rgb_led |-> [brightness |-> 100]]]

\* determine_status testing the warning thresholds before the error ones.
determine_status_WarningFirst(config, temperature, humidity) ==
    IF temperature >= config.temp_warning \/ humidity >= config.humidity_warning
    THEN IF temperature >= config.temp_error \/ humidity >= config.humidity_error
         THEN "red" ELSE "blue"
    ELSE "green"

determine_status(config, temperature, humidity) ==
    IF temperature >= config.temp_error \/ humidity >= config.humidity_error THEN "red"
    ELSE IF temperature >= config.temp_warning \/ humidity >= config.humidity_warning THEN "blue"
    ELSE "green"

\* update_led_status writing the indicator at every call.
StatusChanged_Always(status, current_status) == TRUE

\* Whether update_led_status does anything.
StatusChanged(status, current_status) == status # current_status

\* current_status recorded whatever the indicator set returned.
StatusAfterSet_Always(current_status, status, success) == status

\* current_status after the indicator set returned `success`.
StatusAfterSet(current_status, status, success) == IF success THEN status ELSE current_status

\* update_led_status(status): `calls` lists the facade's indicator
\* operations the call issued, `writes` the PinDriver writes they made.  The
\* half second slept between the two is below the clock's resolution.
HALSensorMonitor_update_led_status(w, current_status, status, fault1, fault2, env) ==
    IF ~StatusChanged(status, current_status)
    THEN [w |-> w, current_status |-> current_status, calls |-> <<>>, writes |-> <<>>,
          success |-> FALSE]
    ELSE LET Set(c) ==
                 LET Then(r) ==
                         [w |-> r.w,
                          current_status |-> StatusAfterSet(current_status, status, r.ret),
                          calls |-> <<"clear_all_indicators", "set_indicator_state">>,
                          writes |-> c.writes \o r.writes,
                          success |-> r.ret]
                 IN Then(TrustMonitorHAL_set_indicator_state(c.w, "rgb_led", "on", status,
                                                             None, fault2, env))
         IN Set(TrustMonitorHAL_clear_all_indicators(w, fault1, env))

\* read_sensors(): `some` is whether a reading, not None, is returned.
HALSensorMonitor_read_sensors(w, current_time, script, env) ==
    LET Then(r) ==
            LET got == "dht11_sensor" \in DOMAIN r.ret
                values == IF got THEN r.ret["dht11_sensor"] ELSE EmptyMap
                temperature == dict_get(values, "temperature")
                humidity == dict_get(values, "humidity")
            IN [w |-> r.w, some |-> got /\ temperature # None /\ humidity # None,
                temperature |-> temperature, humidity |-> humidity,
                reads |-> r.reads, waits |-> r.waits, slept |-> r.slept, limited |-> r.limited]
    IN Then(TrustMonitorHAL_get_sensor_values(w, "dht11_sensor", current_time, script, env))

\* run_once leaving the indicator green when the sensor gave no data.
NoDataStatus_Green == "green"

\* The status run_once asks for when the sensor gave no data.
NoDataStatus == "red"

\* run_once(): `updates` lists the statuses passed to update_led_status.
HALSensorMonitor_run_once(w, config, current_status, current_time, script, fault1, fault2, env) ==
    LET Decide(result) ==
            LET status == IF result.some
                          THEN determine_status(config, result.temperature, result.humidity)
                          ELSE NoDataStatus
                Then(u) ==
                    [w |-> u.w, current_status |-> u.current_status, some |-> result.some,
                     updates |-> <<status>>, calls |-> u.calls, writes |-> u.writes,
                     success |-> u.success, reads |-> result.reads, waits |-> result.waits,
                     slept |-> result.slept, limited |-> result.limited]
            IN Then(HALSensorMonitor_update_led_status(result.w, current_status, status,
                                                       fault1, fault2, env))
    IN Decide(HALSensorMonitor_read_sensors(w, current_time, script, env))

\* initialize() that goes on to the self-tests whatever the facade reports.
HALSensorMonitor_initialize_Quiet(w, config, answers, tests, env) ==
    LET Tested(t) == [w |-> t.w, raised |-> FALSE, test_results |-> t.results]
        Then(r) == Tested(TrustMonitorHAL_run_self_tests(r.w, tests, env))
    IN Then(TrustMonitorHAL_initialize(w, config.hal_config, answers, env))

\* initialize(): raises when the facade's initialize reports failure;
\* failed self-tests are only reported.
HALSensorMonitor_initialize(w, config, answers, tests, env) ==
    LET Tested(t) == [w |-> t.w, raised |-> FALSE, test_results |-> t.results]
        Then(r) ==
            IF ~r.ret THEN [w |-> r.w, raised |-> TRUE, test_results |-> EmptyMap]
            ELSE Tested(TrustMonitorHAL_run_self_tests(r.w, tests, env))
    IN Then(TrustMonitorHAL_initialize(w, config.hal_config, answers, env))

\* cleanup() that leaves the hardware alone.
HALSensorMonitor_cleanup_Skip(w, answers, env) == [w |-> w, ret |-> TRUE, calls |-> <<>>]

\* cleanup(): the facade's cleanup, whose result is not looked at.
HALSensorMonitor_cleanup(w, answers, env) == TrustMonitorHAL_cleanup(w, answers, env)

HALSensorMonitor_get_device_status(w) == TrustMonitorHAL_get_device_status(w)

\* ================================================================== state
VARIABLES
    heap,             \* the device objects created so far
    devices,          \* HALManager.devices: device id -> object
    mgr_initialized,  \* HALManager.initialized
    hal_devices,      \* TrustMonitorHAL.devices
    hal_initialized,  \* TrustMonitorHAL.initialized
    current_status,   \* HALSensorMonitor.current_status
    config,           \* HALSensorMonitor.config
    now,              \* time.time()
    env,              \* DHT_AVAILABLE, GPIO_AVAILABLE
    obs,              \* the last call: its arguments, result and trace
    hist              \* what the claims need of the past: the sensor's last two
                      \* accepted reads, a device's last lifecycle call

vars == <<heap, devices, mgr_initialized, hal_devices, hal_initialized, current_status,
          config, now, env, obs, hist>>

World ==
    [heap |-> heap, devices |-> devices, mgr_initialized |-> mgr_initialized,
     hal_devices |-> hal_devices, hal_initialized |-> hal_initialized]

SetWorld(w) ==
    /\ heap' = w.heap
    /\ devices' = w.devices
    /\ mgr_initialized' = w.mgr_initialized
    /\ hal_devices' = w.hal_devices
    /\ hal_initialized' = w.hal_initialized

Envs == [dht : BOOLEAN, gpio : BOOLEAN]

\* The configuration of a process started with no environment variable set,
\* on the scale of levels: warning at 1, error at 2.
DefaultSensorConfig == SensorConfig(1, 2, 1, 2, DefaultMaxRetries, 1)

\* No call can start once the clock has run MaxTime seconds.
ClockOpen == now < StartTime + MaxTime

\* Time passes between two calls.
Tick ==
    /\ ClockOpen
    /\ now' = now + 1
    /\ UNCHANGED <<heap, devices, mgr_initialized, hal_devices, hal_initialized,
                   current_status, config, env, obs, hist>>

\* ------------------------------------------- one DHT11 sensor, free-standing
\* The configurations given to DHT11Sensor.initialize: none, all three
\* options zero, or all three positive.
SensorConfigs ==
    {EmptyMap, [max_retries |-> 0, retry_delay |-> 0, min_read_interval |-> 0]} \cup
    {[max_retries |-> r, retry_delay |-> MaxDelay, min_read_interval |-> i] :
        r \in 1 .. MaxRetries, i \in 1 .. MaxInterval}

TheSensor == heap[1]

InitSensor ==
    /\ heap = <<DHT11Sensor_init("dht11_sensor")>>
    /\ devices = EmptyMap
    /\ mgr_initialized = FALSE
    /\ hal_devices = EmptyMap
    /\ hal_initialized = FALSE
    /\ current_status = "None"
    /\ config = DefaultSensorConfig
    /\ now = StartTime
    /\ env \in {e \in Envs : ~e.gpio}
    /\ obs = [op |-> "new"]
    /\ hist = <<>>

SensorFrame ==
    UNCHANGED <<devices, mgr_initialized, hal_devices, hal_initialized, current_status,
                config, env>>

SensorInitialize ==
    \E cfg \in SensorConfigs, a \in AnswersFor(TheSensor, env, {0}) :
        LET Then(r) ==
                /\ heap' = [heap EXCEPT ![1] = r.dev]
                /\ obs' = [op |-> "initialize", ret |-> r.ret]
                /\ UNCHANGED <<now, hist>>
                /\ SensorFrame
        IN Then(DHT11Sensor_initialize(TheSensor, cfg, env.dht, a.hw_ok, a.raw))

SensorCleanup ==
    LET r == DHT11Sensor_cleanup(TheSensor)
    IN /\ heap' = [heap EXCEPT ![1] = r.dev]
       /\ obs' = [op |-> "cleanup", ret |-> r.ret]
       /\ UNCHANGED <<now, hist>>
       /\ SensorFrame

\* The scripts the bus can follow during one call on device dev.
ScriptsFor(dev, good) ==
    IF env.dht THEN ScriptTable[dev.max_retries][good] ELSE {<<g>> : g \in good}

AllBad(script) == \A i \in 1 .. Len(script) : script[i] \in BadReadings

\* The first raw read of a script at which the bus does not raise and
\* reports both values (0: none).
FirstComplete(script) ==
    LET good == {i \in 1 .. Len(script) :
                    ~script[i].exc /\ script[i].temp # None /\ script[i].hum # None}
    IN IF good = {} THEN 0 ELSE CHOOSE i \in good : \A j \in good : i <= j

\* A read_values() call as the next call sees it: when it started and how it
\* ended.
Earlier(o) ==
    IF o.op = "read_values"
    THEN [op |-> o.op, start |-> o.start, accepted |-> o.accepted, exhausted |-> o.exhausted]
    ELSE [op |-> o.op]

\* The accepted reads kept: the last one and the one before it.
Accept(h, at, interval) ==
    (IF h = <<>> THEN <<>> ELSE <<h[Len(h)]>>) \o <<[at |-> at, interval |-> interval]>>

SensorReadValues ==
    /\ ClockOpen
    /\ \E script \in ScriptsFor(TheSensor, TwoReadings) :
        LET Then(r) ==
                LET accepted == DOMAIN r.ret # {}
                IN /\ heap' = [heap EXCEPT ![1] = r.dev]
                   /\ now' = now + r.slept
                   /\ hist' = IF accepted THEN Accept(hist, now, TheSensor.min_read_interval)
                              ELSE hist
                   /\ obs' = [op |-> "read_values", start |-> now, ret |-> r.ret,
                              reads |-> r.reads, waits |-> r.waits, slept |-> r.slept,
                              trace |-> r.trace,
                              ready |-> TheSensor.status = "ready",
                              last_before |-> TheSensor.last_reading_time,
                              after_accept |->
                                  IF hist = <<>> THEN None ELSE now - hist[Len(hist)].at,
                              accepted |-> accepted,
                              exhausted |-> r.reads > 0 /\ ~accepted,
                              all_bad |-> AllBad(script),
                              prev |-> Earlier(obs)]
                   /\ SensorFrame
        IN Then(DHT11Sensor_read_values(TheSensor, now, env.dht, script))

SensorSelfTest ==
    \E a \in AnswersFor(TheSensor, env, {0}) :
        LET Then(r) ==
                /\ heap' = [heap EXCEPT ![1] = r.dev]
                /\ obs' = [op |-> "self_test", ret |-> r.ret]
                /\ UNCHANGED <<now, hist>>
                /\ SensorFrame
        IN Then(DHT11Sensor_self_test(TheSensor, env.dht, a.raw))

NextSensor == SensorInitialize \/ SensorCleanup \/ SensorReadValues \/ SensorSelfTest \/ Tick

SpecSensor == InitSensor /\ [][NextSensor]_vars

\* ================================================= claims on the sensor
ReadCall == obs.op = "read_values"

\* C5: accepted reads of one device are never closer together than the
\* minimum interval in force, and a call made less than that interval after
\* the last accepted read returns the empty mapping, makes no raw read and
\* leaves last_reading_time as it was.
C5_RateLimit ==
    /\ Len(hist) = 2 => hist[2].at - hist[1].at >= hist[2].interval
    /\ (ReadCall /\ obs.after_accept # None /\ obs.after_accept < TheSensor.min_read_interval)
         => /\ DOMAIN obs.ret = {}
            /\ obs.reads = 0
            /\ TheSensor.last_reading_time = obs.last_before

C5_Witness ==
    /\ Len(hist) = 2
    /\ ReadCall /\ obs.ready
    /\ obs.after_accept # None /\ obs.after_accept < TheSensor.min_read_interval

\* Two read_values() calls in a row on a Ready sensor, the second less than
\* the minimum interval after the first.
CloseCalls ==
    /\ ReadCall /\ obs.ready
    /\ obs.prev.op = "read_values"
    /\ obs.start - obs.prev.start < TheSensor.min_read_interval

\* C6 as stated: the second of two close calls returns the empty mapping
\* whether or not the first returned a reading.
C6_AsStated == CloseCalls => DOMAIN obs.ret = {}

\* C6: the second of two close calls returns the empty mapping without a raw
\* read when the first call returned a reading.
C6_SecondEmptyAfterReading ==
    (CloseCalls /\ obs.prev.accepted) => (DOMAIN obs.ret = {} /\ obs.reads = 0)

C6_Witness == CloseCalls /\ obs.prev.accepted /\ DOMAIN obs.ret = {}

\* A step that is a read_values() call.
ReadStep == obs'.op = "read_values" /\ obs'.start = now /\ obs'.prev = Earlier(obs)

\* C7: a call that exhausts its retries returns the empty mapping and leaves
\* last_reading_time alone; last_reading_time changes only in a call that
\* returns a reading, to the time at which that call started; and the call
\* after an exhausted one makes raw reads again.
C7_ExhaustionKeepsTime ==
    [][ /\ (ReadStep /\ obs'.exhausted)
            => /\ DOMAIN obs'.ret = {}
               /\ heap'[1].last_reading_time = heap[1].last_reading_time
        /\ heap'[1].last_reading_time # heap[1].last_reading_time
            => /\ ReadStep /\ obs'.accepted
               /\ heap'[1].last_reading_time = now
        /\ (ReadStep /\ ReadCall /\ obs.exhausted) => obs'.reads >= 1 ]_vars

C7_Witness ==
    /\ ReadCall /\ obs.reads >= 1
    /\ obs.prev.op = "read_values" /\ obs.prev.exhausted
    /\ obs.start - obs.prev.start < TheSensor.min_read_interval

\* The reads and waits of a call that makes n raw reads, none of them
\* complete: read, wait, read, ..., read.
RECURSIVE Alternation(_)
Alternation(n) == IF n <= 1 THEN <<"read">> ELSE <<"read", "wait">> \o Alternation(n - 1)

\* C8: on a bus that reports missing values at every raw read, a call that is
\* not rate-limited makes exactly max_retries raw reads with a wait of
\* retry_delay between two reads, none after the last, and returns the empty
\* mapping.
C8_RetryExhaustion ==
    (/\ ReadCall /\ obs.ready /\ env.dht /\ obs.all_bad
     /\ obs.start - obs.last_before >= TheSensor.min_read_interval)
        => /\ obs.reads = TheSensor.max_retries
           /\ obs.waits = TheSensor.max_retries - 1
           /\ obs.trace = Alternation(TheSensor.max_retries)
           /\ obs.slept = (TheSensor.max_retries - 1) * TheSensor.retry_delay
           /\ DOMAIN obs.ret = {}

C8_Witness ==
    /\ ReadCall /\ obs.ready /\ env.dht /\ obs.all_bad
    /\ obs.start - obs.last_before >= TheSensor.min_read_interval
    /\ obs.reads >= 2 /\ obs.waits = obs.reads - 1

\* ============================================== determine_status on its own
\* A monitor just constructed, with any four thresholds on the scale of
\* levels, ordered or not.
StatusConfigs ==
    {SensorConfig(tw, te, hw, he, DefaultMaxRetries, DefaultRetryDelay) :
        tw \in Levels, te \in Levels, hw \in Levels, he \in Levels}

InitStatus ==
    /\ heap = <<>>
    /\ devices = EmptyMap
    /\ mgr_initialized = FALSE
    /\ hal_devices = EmptyMap
    /\ hal_initialized = FALSE
    /\ current_status = "None"
    /\ config \in StatusConfigs
    /\ now = StartTime
    /\ env \in Envs
    /\ obs = [op |-> "new"]
    /\ hist = <<>>

DetermineStatus ==
    \E temperature \in Levels, humidity \in Levels :
        /\ obs' = [op |-> "determine_status", temperature |-> temperature,
                   humidity |-> humidity,
                   ret |-> determine_status(config, temperature, humidity)]
        /\ UNCHANGED <<heap, devices, mgr_initialized, hal_devices, hal_initialized,
                       current_status, config, now, env, hist>>

NextStatus == DetermineStatus

SpecStatus == InitStatus /\ [][NextStatus]_vars

\* C1: determine_status returns red when the temperature is at or above
\* temp_error or the humidity at or above humidity_error, otherwise blue when
\* either is at or above its warning threshold, otherwise green, whatever the
\* order of the thresholds; the call changes no monitor or device state.
C1_DetermineStatus ==
    [][ obs'.op = "determine_status" =>
          LET t == obs'.temperature
              h == obs'.humidity
              error == t >= config.temp_error \/ h >= config.humidity_error
              warning == t >= config.temp_warning \/ h >= config.humidity_warning
          IN /\ obs'.ret \in {"red", "blue", "green"}
             /\ obs'.ret = "red" <=> error
             /\ obs'.ret = "blue" <=> (~error /\ warning)
             /\ obs'.ret = "green" <=> (~error /\ ~warning)
             /\ UNCHANGED <<heap, devices, mgr_initialized, hal_devices, hal_initialized,
                            current_status, config>> ]_vars

C1_Witness ==
    /\ obs.op = "determine_status"
    /\ config.temp_error < config.temp_warning
    /\ obs.temperature >= config.temp_error /\ obs.temperature < config.temp_warning
    /\ obs.humidity < config.humidity_warning /\ obs.humidity < config.humidity_error
    /\ obs.ret = "red"

\* ================================================ the manager and the facade
DeviceTypes == {"sensor", "indicator", "actuator"}

\* The class of the object registered under each id.
RegisteredTypes(w) == [id \in DOMAIN w.devices |-> w.heap[w.devices[id]].device_type]

\* The same once the facade has registered its sensor and its LED.
FacadeTypes(w) ==
    dict_update(RegisteredTypes(w), [dht11_sensor |-> "sensor", rgb_led |-> "indicator"])

\* What the hardware can answer during initialize, cleanup and self_test, per
\* class of device.
InitAnswers(faults) == [t \in DeviceTypes |-> AnswersFor([device_type |-> t], env, faults)]

CleanupAnswers ==
    [t \in DeviceTypes |->
        CASE t = "sensor" -> {Calm}
          [] t = "indicator" -> IF env.gpio THEN {Calm, [Calm EXCEPT !.hw_ok = FALSE]} ELSE {Calm}
          [] OTHER -> {[Calm EXCEPT !.outcome = o] : o \in {"ok", "fail", "raise"}}]

SelfTestAnswers(faults) ==
    [t \in DeviceTypes |->
        CASE t = "sensor" ->
               IF env.dht THEN {Calm, [Calm EXCEPT !.raw = Reading(None, None)]} ELSE {Calm}
          [] t = "indicator" ->
               IF env.gpio THEN {[Calm EXCEPT !.fault = f] : f \in faults} ELSE {Calm}
          [] OTHER -> {[Calm EXCEPT !.outcome = o] : o \in {"ok", "fail", "raise"}}]

\* One answer for each device of a bulk operation.
AnswerMaps(types, sets) ==
    {f \in [DOMAIN types -> UNION {sets[t] : t \in DeviceTypes}] :
        \A id \in DOMAIN types : f[id] \in sets[types[id]]}

\* The LED channel whose set-up fails during initialize: none, or the second.
InitFaults == {0, 2}

\* A bulk initialization as the next call sees it.
Summary(o) ==
    IF o.op \in {"initialize_all", "initialize"}
    THEN [op |-> o.op, ret |-> o.ret, calls |-> o.calls]
    ELSE [op |-> o.op]

\* A sensor, a LED and a third-party device, constructed and not registered.
InitManager ==
    /\ heap = <<DHT11Sensor_init("dht11_sensor"), RGBLEDIndicator_init("rgb_led"),
               StubDevice_init("aux")>>
    /\ devices = EmptyMap
    /\ mgr_initialized = FALSE
    /\ hal_devices = EmptyMap
    /\ hal_initialized = FALSE
    /\ current_status = "None"
    /\ config = DefaultSensorConfig
    /\ now = StartTime
    /\ env \in Envs
    /\ obs = [op |-> "new"]
    /\ hist = <<>>

HalFrame == UNCHANGED <<current_status, config, now, env, hist>>

MgrRegister ==
    \E obj \in 1 .. Len(heap) :
        LET Then(r) ==
                /\ SetWorld(r.w)
                /\ obs' = [op |-> "register_device", id |-> heap[obj].device_id, ret |-> r.ret,
                           obj |-> obj, replaced |-> dict_get(devices, heap[obj].device_id)]
                /\ HalFrame
        IN Then(HALManager_register_device(World, obj))

MgrUnregister ==
    \E i \in 1 .. Len(DeviceIds) :
        LET id == DeviceIds[i]
            answers == IF id \in DOMAIN devices
                       THEN CleanupAnswers[heap[devices[id]].device_type] ELSE {Calm}
        IN \E a \in answers :
            LET Then(r) ==
                    /\ SetWorld(r.w)
                    /\ obs' = [op |-> "unregister_device", id |-> id, ret |-> r.ret,
                               was |-> id \in DOMAIN devices, cleaned |-> r.cleaned,
                               cleanup_ok |-> r.cleanup_ok,
                               same |-> r.w.devices = devices /\ r.w.heap = heap]
                    /\ HalFrame
            IN Then(HALManager_unregister_device(World, id, env, a))

MgrInitializeAll ==
    \E answers \in AnswerMaps(RegisteredTypes(World), InitAnswers(InitFaults)) :
        LET Then(r) ==
                /\ SetWorld(r.w)
                /\ obs' = [op |-> "initialize_all", ret |-> r.ret, calls |-> r.calls]
                /\ HalFrame
        IN Then(HALManager_initialize_all(World, EmptyMap, answers, env))

MgrCleanupAll ==
    \E answers \in AnswerMaps(RegisteredTypes(World), CleanupAnswers) :
        LET Then(r) ==
                /\ SetWorld(r.w)
                /\ obs' = [op |-> "cleanup_all", ret |-> r.ret, calls |-> r.calls,
                           was_initialized |-> mgr_initialized]
                /\ HalFrame
        IN Then(HALManager_cleanup_all(World, answers, env))

\* The PinDriver call that fails during the LED's self-test: none, or the
\* first or the second call of its second colour.
SelfTestFaults == {0, 7, 8}

\* run_self_tests with the sensor's bus and the third-party device answering
\* either way, and a PinDriver that does not fail.
MgrRunSelfTests ==
    \E answers \in AnswerMaps(RegisteredTypes(World), SelfTestAnswers({0})) :
        LET Then(r) ==
                /\ SetWorld(r.w)
                /\ obs' = [op |-> "run_self_tests", ret |-> r.results, calls |-> r.calls]
                /\ HalFrame
        IN Then(HALManager_run_self_tests(World, answers, env))

MgrGetAllStatus ==
    /\ obs' = [op |-> "get_all_status", ret |-> HALManager_get_all_status(World),
               prev |-> Summary(obs)]
    /\ UNCHANGED <<heap, devices, mgr_initialized, hal_devices, hal_initialized>>
    /\ HalFrame

NextManager ==
    \/ MgrRegister
    \/ MgrUnregister
    \/ MgrInitializeAll
    \/ MgrCleanupAll
    \/ MgrRunSelfTests
    \/ MgrGetAllStatus

SpecManager == InitManager /\ [][NextManager]_vars

\* ------------------------------------- the facade over its own two devices
InitFacade ==
    /\ heap = <<>>
    /\ devices = EmptyMap
    /\ mgr_initialized = FALSE
    /\ hal_devices = EmptyMap
    /\ hal_initialized = FALSE
    /\ current_status = "None"
    /\ config = DefaultSensorConfig
    /\ now = StartTime
    /\ env \in Envs
    /\ obs = [op |-> "new"]
    /\ hist = <<>>

\* The configurations given to the facade: none, and a dimmed LED.
FacadeConfigs == {EmptyMap, [rgb_led |-> [brightness |-> HalfBrightness]]}

FacadeInitialize ==
    /\ Len(heap) + 2 <= MaxObjects
    /\ \E cfg \in FacadeConfigs,
          answers \in AnswerMaps(FacadeTypes(World), InitAnswers(InitFaults)) :
        LET Then(r) ==
                /\ SetWorld(r.w)
                /\ obs' = [op |-> "initialize", ret |-> r.ret, calls |-> r.calls]
                /\ HalFrame
        IN Then(TrustMonitorHAL_initialize(World, cfg, answers, env))

FacadeCleanup ==
    \E answers \in AnswerMaps(RegisteredTypes(World), CleanupAnswers) :
        LET Then(r) ==
                /\ SetWorld(r.w)
                /\ obs' = [op |-> "cleanup", ret |-> r.ret, calls |-> r.calls]
                /\ HalFrame
        IN Then(TrustMonitorHAL_cleanup(World, answers, env))

FacadeGetDeviceStatus ==
    /\ obs' = [op |-> "get_device_status", ret |-> TrustMonitorHAL_get_device_status(World),
               prev |-> Summary(obs)]
    /\ UNCHANGED <<heap, devices, mgr_initialized, hal_devices, hal_initialized>>
    /\ HalFrame

\* The channels that are lit.
Lit(duty) == {ch \in Channels : duty[ch] > 0}

\* set_led_color(color, brightness) with a PinDriver call that may raise;
\* `lit` is what was lit when it was called.
FacadeSetLedColor ==
    \E color \in {"yellow", "blue"}, brightness \in {0, DefaultBrightness},
       fault \in (IF env.gpio THEN {0, 5} ELSE {0}) :
        LET led == HALManager_get_device(World, "rgb_led")
            Then(r) ==
                /\ SetWorld(r.w)
                /\ obs' = [op |-> "set_led_color", color |-> color, brightness |-> brightness,
                           ret |-> r.ret, reached |-> r.reached, writes |-> r.writes,
                           lit |-> IF led = None THEN {} ELSE Lit(heap[led].duty)]
                /\ HalFrame
        IN Then(set_led_color(World, color, brightness, fault, env))

NextFacade ==
    \/ FacadeInitialize
    \/ FacadeCleanup
    \/ FacadeGetDeviceStatus
    \/ MgrGetAllStatus
    \/ MgrRegister

SpecFacade == InitFacade /\ [][NextFacade]_vars

\* The facade and the colour calls made on it.
NextLedColor == FacadeInitialize \/ FacadeSetLedColor

SpecLedColor == InitFacade /\ [][NextLedColor]_vars

\* The object registered under id.
Device(id) == heap[devices[id]]

Succeeded(call) == ~call.raised /\ call.ret

\* C9: initialize_all calls initialize once on every registered device; a
\* device whose initialize raised is left in Error with last_error set and
\* does not keep the others from being initialized, the devices whose
\* initialize returned true are Ready, and the result is true exactly when
\* every device's initialize returned true.
C9_InitializeAll ==
    obs.op = "initialize_all" =>
        /\ Len(obs.calls) = Cardinality(DOMAIN devices)
        /\ {obs.calls[i].id : i \in 1 .. Len(obs.calls)} = DOMAIN devices
        /\ \A i \in 1 .. Len(obs.calls) :
            LET call == obs.calls[i]
            IN /\ call.raised =>
                    (Device(call.id).status = "error" /\ Device(call.id).last_error # "None")
               /\ Succeeded(call) => Device(call.id).status = "ready"
        /\ obs.ret = (\A i \in 1 .. Len(obs.calls) : Succeeded(obs.calls[i]))

C9_Witness ==
    /\ obs.op = "initialize_all"
    /\ Len(obs.calls) = 3
    /\ obs.calls[2].raised
    /\ Device(obs.calls[2].id).status = "error"
    /\ Succeeded(obs.calls[1]) /\ Succeeded(obs.calls[3])
    /\ Device(obs.calls[1].id).status = "ready" /\ Device(obs.calls[3].id).status = "ready"
    /\ obs.ret = FALSE

\* A status query right after a bulk initialization in which some devices
\* succeeded and others failed.
AfterPartialInit ==
    /\ obs.op \in {"get_all_status", "get_device_status"}
    /\ obs.prev.op \in {"initialize_all", "initialize"}
    /\ \E i \in 1 .. Len(obs.prev.calls) : Succeeded(obs.prev.calls[i])
    /\ \E i \in 1 .. Len(obs.prev.calls) : ~Succeeded(obs.prev.calls[i])

\* The map holds one entry per registered device: Ready for the devices that
\* succeeded, Error for those that failed.
StatusMapComplete ==
    /\ DOMAIN obs.ret = DOMAIN devices
    /\ \A i \in 1 .. Len(obs.prev.calls) :
        LET call == obs.prev.calls[i]
        IN /\ call.id \in DOMAIN obs.ret
           /\ obs.ret[call.id] = Device(call.id).status
           /\ obs.ret[call.id] = IF Succeeded(call) THEN "ready" ELSE "error"

\* C10: after an initialization in which some devices succeeded and others
\* failed, the status query returns one entry per registered device, Ready
\* for those that succeeded and Error for those that failed, from
\* HALManager.get_all_status and from TrustMonitorHAL.get_device_status alike.
C10_StatusAfterPartialInit == AfterPartialInit => StatusMapComplete

\* The part of C10 about HALManager.get_all_status alone.
C10_ManagerStatusMap == (AfterPartialInit /\ obs.op = "get_all_status") => StatusMapComplete

C10_ManagerWitness ==
    /\ AfterPartialInit /\ obs.op = "get_all_status"
    /\ Cardinality({obs.ret[id] : id \in DOMAIN obs.ret}) = 2

\* C11: unregister_device of a registered id calls the device's cleanup and
\* then removes the device; when that cleanup fails, by returning false or by
\* raising, the device is removed all the same and the result is not success;
\* for an id that is not registered the registry is unchanged and the result
\* is false.
C11_Unregister ==
    obs.op = "unregister_device" =>
        IF obs.was
        THEN /\ obs.cleaned
             /\ obs.id \notin DOMAIN devices
             /\ ~obs.cleanup_ok => obs.ret = FALSE
        ELSE obs.same /\ obs.ret = FALSE

\* The objects reachable through the manager.
Reachable(registry) == {registry[id] : id \in DOMAIN registry}

\* C12: the registry holds at most one device per id; register_device of an
\* id that is already registered replaces the entry without calling cleanup
\* on the replaced device and without changing its status or resources: a
\* replaced Ready device stays Ready and is no longer reachable through the
\* manager.
C12_Replace ==
    [][/\ \A id \in DOMAIN devices' : heap'[devices'[id]].device_id = id
       /\ obs'.op = "register_device" =>
            /\ obs'.replaced = dict_get(devices, obs'.id)
            /\ devices' = dict_update(devices, [k \in {obs'.id} |-> obs'.obj])
            /\ heap' = heap
            /\ obs'.replaced \notin {None, obs'.obj} =>
                    obs'.replaced \notin Reachable(devices')
       /\ obs'.op = "initialize" =>
            /\ \A i \in 1 .. Len(heap) : heap'[i] = heap[i]
            /\ Reachable(devices) \cap Reachable(devices') = {}]_vars

C12_Witness ==
    /\ obs.op = "register_device"
    /\ obs.replaced \notin {None, obs.obj}
    /\ heap[obs.replaced].status = "ready"
    /\ heap[obs.replaced].device_id = obs.id
    /\ devices[obs.id] = obs.obj
    /\ obs.replaced \notin Reachable(devices)

\* C13: cleanup_all calls cleanup on every registered device; a device whose
\* cleanup returns false or raises does not keep the others from being
\* cleaned up; no device is removed from the registry, and afterwards the
\* manager's initialized flag is false.
C13_CleanupAll ==
    [][obs'.op = "cleanup_all" =>
        /\ Len(obs'.calls) = Cardinality(DOMAIN devices)
        /\ {obs'.calls[i].id : i \in 1 .. Len(obs'.calls)} = DOMAIN devices
        /\ \A i \in 1 .. Len(obs'.calls) :
            Succeeded(obs'.calls[i]) => heap'[devices[obs'.calls[i].id]].status = "uninitialized"
        /\ devices' = devices
        /\ mgr_initialized' = FALSE]_vars

C13_Witness ==
    /\ obs.op = "cleanup_all"
    /\ obs.was_initialized /\ ~mgr_initialized
    /\ Len(obs.calls) = 3 /\ Cardinality(DOMAIN devices) = 3
    /\ Succeeded(obs.calls[1]) /\ Device(obs.calls[1].id).status = "uninitialized"
    /\ obs.calls[2].raised
    /\ ~obs.calls[3].raised /\ ~obs.calls[3].ret

\* C14: run_self_tests runs self_test on every registered device and returns
\* a map whose keys are exactly the registered ids; a self_test that raises
\* is recorded as false and does not keep the others from being tested; the
\* call itself never raises.
C14_RunSelfTests ==
    obs.op = "run_self_tests" =>
        /\ DOMAIN obs.ret = DOMAIN devices
        /\ Len(obs.calls) = Cardinality(DOMAIN devices)
        /\ {obs.calls[i].id : i \in 1 .. Len(obs.calls)} = DOMAIN devices
        /\ \A i \in 1 .. Len(obs.calls) :
            obs.ret[obs.calls[i].id] = Succeeded(obs.calls[i])

C14_Witness ==
    /\ obs.op = "run_self_tests"
    /\ Len(obs.calls) = 3
    /\ obs.calls[2].id = "aux" /\ obs.calls[2].raised
    /\ obs.ret["aux"] = FALSE
    /\ obs.ret["dht11_sensor"] /\ obs.ret["rgb_led"]

\* ============================================================== the monitor
\* The monitor's configurations: thresholds ordered and misordered, a sensor
\* read once per call.
MonitorConfigs == {SensorConfig(1, 2, 1, 2, 1, MaxDelay), SensorConfig(2, 1, 2, 1, 1, MaxDelay)}

\* The PinDriver call of one update_led_status that raises: none, one of
\* clear_all_indicators, one of set_indicator_state while it zeroes the
\* channels, one while it applies the colour.
UpdateFaults == IF env.gpio THEN {0, 2, 5, 8} ELSE {0}

\* The same as the call number within clear_all_indicators, which makes one
\* call per channel, and within set_indicator_state.
ClearFault(fault) == IF fault <= Len(ChannelOrder) THEN fault ELSE 0
SetFault(fault) == IF fault > Len(ChannelOrder) THEN fault - Len(ChannelOrder) ELSE 0

Statuses == {"green", "blue", "red"}

InitMonitor ==
    /\ heap = <<>>
    /\ devices = EmptyMap
    /\ mgr_initialized = FALSE
    /\ hal_devices = EmptyMap
    /\ hal_initialized = FALSE
    /\ current_status = "None"
    /\ config \in MonitorConfigs
    /\ now = StartTime
    /\ env \in Envs
    /\ obs = [op |-> "new"]
    /\ hist = <<>>

\* A call of update_led_status, made directly or by run_once, as the next
\* call sees it: the status asked for, whether the indicator was written and
\* whether the set succeeded.
Update(o) ==
    IF o.op \in {"update_led_status", "run_once"}
    THEN [op |-> "update_led_status", status |-> o.status, success |-> o.success,
          attempted |-> o.calls # <<>>]
    ELSE [op |-> o.op]

\* initialize() is called once in the life of the process, as main() does.
MonitorInitialize ==
    /\ heap = <<>>
    /\ \E answers \in AnswerMaps(FacadeTypes(World), InitAnswers(InitFaults)),
          tests \in AnswerMaps(FacadeTypes(World), SelfTestAnswers(InitFaults)) :
        LET Then(r) ==
                /\ SetWorld(r.w)
                /\ obs' = [op |-> "initialize", raised |-> r.raised]
                /\ UNCHANGED <<current_status, config, now, env, hist>>
        IN Then(HALSensorMonitor_initialize(World, config, answers, tests, env))

\* The scripts the bus can follow during one run_once().
MonitorScripts ==
    IF hal_initialized /\ IsSensor(World, dict_get(devices, "dht11_sensor"))
    THEN LET dev == heap[devices["dht11_sensor"]]
         IN IF dev.status = "ready" /\ ~RateLimited(dev, now)
            THEN IF env.dht THEN ScriptTable[dev.max_retries][MonitorReadings]
                 ELSE {<<g>> : g \in MonitorReadings}
            ELSE {<<Reading(0, 0)>>}
    ELSE {<<Reading(0, 0)>>}

RunOnce ==
    /\ ClockOpen
    /\ \E script \in MonitorScripts, fault \in UpdateFaults :
        LET Then(r) ==
                /\ SetWorld(r.w)
                /\ current_status' = r.current_status
                /\ now' = now + r.slept
                /\ obs' = [op |-> "run_once", status |-> r.updates[1], updates |-> r.updates,
                           before |-> current_status, some |-> r.some, calls |-> r.calls,
                           wrote |-> r.writes # <<>>, success |-> r.success, reads |-> r.reads,
                           prev |-> Update(obs)]
                /\ UNCHANGED <<config, env, hist>>
        IN Then(HALSensorMonitor_run_once(World, config, current_status, now, script,
                                          ClearFault(fault), SetFault(fault), env))

UpdateLedStatus ==
    \E status \in Statuses, fault \in UpdateFaults :
        LET Then(r) ==
                /\ SetWorld(r.w)
                /\ current_status' = r.current_status
                /\ obs' = [op |-> "update_led_status", status |-> status,
                           before |-> current_status, calls |-> r.calls,
                           wrote |-> r.writes # <<>>, success |-> r.success,
                           prev |-> Update(obs)]
                /\ UNCHANGED <<config, now, env, hist>>
        IN Then(HALSensorMonitor_update_led_status(World, current_status, status,
                                                   ClearFault(fault), SetFault(fault), env))

MonitorCleanup ==
    \E answers \in AnswerMaps(RegisteredTypes(World), CleanupAnswers) :
        /\ SetWorld(HALSensorMonitor_cleanup(World, answers, env).w)
        /\ obs' = [op |-> "cleanup"]
        /\ UNCHANGED <<current_status, config, now, env, hist>>

NextMonitor == MonitorInitialize \/ RunOnce \/ UpdateLedStatus \/ MonitorCleanup \/ Tick

SpecMonitor == InitMonitor /\ [][NextMonitor]_vars

\* A run_once() that got no data from the sensor.
NoData == obs.op = "run_once" /\ ~obs.some

\* The LED of the facade.
TheLed == heap[devices["rgb_led"]]

\* C2: when run_once gets no data from the sensor, the only indicator update
\* it performs is update_led_status('red'), and if the set succeeds
\* current_status is red afterwards.
C2_NoDataShowsRed ==
    NoData =>
        /\ obs.updates = <<"red">>
        /\ obs.calls \in {<<>>, <<"clear_all_indicators", "set_indicator_state">>}
        /\ obs.success => (current_status = "red" /\ TheLed.current_color = "red")
        /\ ~obs.success => current_status = obs.before

C2_Witness ==
    /\ NoData /\ obs.reads >= 1
    /\ obs.before # "red"
    /\ obs.success /\ current_status = "red"

\* A call of update_led_status, made directly or by run_once.
UpdateCall == obs.op \in {"update_led_status", "run_once"}

\* Two calls of update_led_status in a row with one status, the first of
\* which asked for a change and so went to the indicator.
SameStatusTwice ==
    /\ UpdateCall
    /\ obs.prev.op = "update_led_status"
    /\ obs.prev.status = obs.status
    /\ obs.prev.attempted

\* C3: update_led_status changes current_status only when the indicator set
\* reports success, to the status asked for; a failed set leaves it as it
\* was, and the next call with the same status tries the set again.
C3_StatusFollowsSet ==
    /\ UpdateCall =>
        /\ current_status # obs.before => (obs.success /\ current_status = obs.status)
        /\ (obs.calls # <<>> /\ ~obs.success) => current_status = obs.before
        /\ obs.success => current_status = obs.status
    /\ (SameStatusTwice /\ ~obs.prev.success) =>
        obs.calls = <<"clear_all_indicators", "set_indicator_state">>

C3_Witness ==
    /\ SameStatusTwice /\ ~obs.prev.success
    /\ obs.before = "green"
    /\ obs.success /\ current_status = obs.status

\* C4 as stated: of two calls in a row with one status, the first writes the
\* indicator and the second does nothing.
C4_AsStated == SameStatusTwice => (obs.calls = <<>> /\ ~obs.wrote)

\* C4: of two calls in a row with one status, the second does nothing when
\* the set of the first succeeded: the indicator is written once.
C4_SecondIsNoOp ==
    (SameStatusTwice /\ obs.prev.success) =>
        /\ obs.calls = <<>> /\ ~obs.wrote
        /\ current_status = obs.status

C4_Witness ==
    /\ SameStatusTwice /\ obs.prev.success
    /\ obs.op = "update_led_status"
    /\ env.gpio /\ TheLed.duty[obs.status] > 0
    /\ obs.calls = <<>>

\* ================================================ one device, free-standing
\* A sensor or an LED that no manager holds, driven by every operation of its
\* class.
TheDevice == heap[1]

Brightnesses == {0, HalfBrightness, DefaultBrightness}

\* The configurations given to initialize and set_config.
DeviceConfigs(dev) ==
    IF dev.device_type = "sensor"
    THEN {EmptyMap, [max_retries |-> 1, retry_delay |-> MaxDelay, min_read_interval |-> 1]}
    ELSE {EmptyMap, [brightness |-> HalfBrightness]}

\* The bus during one read call: a reading, a raised error and then a
\* reading, errors only, missing values only.
DeviceScripts ==
    IF env.dht
    THEN {<<Reading(0, 1)>>, <<BusRaises, Reading(0, 1)>>, <<BusRaises, BusRaises, BusRaises>>,
          <<Reading(None, None)>>}
    ELSE {<<Reading(0, 1)>>}

\* The PinDriver call that raises during an LED operation (0: none).
LedFaults(op) ==
    IF ~env.gpio THEN {0}
    ELSE CASE op = "set_color" -> {0, 2, 5}
           [] op = "clear" -> {0, 2}
           [] op = "set_state" -> {0, 5}
           [] op = "blink" -> {0, 8}
           [] OTHER -> {0, 13, BreathSteps * 12 + 1}

\* The calls of set_color: every colour at every brightness, the default
\* brightness, and a PinDriver call that raises.
SetColorCalls ==
    {[color |-> c, brightness |-> b, fault |-> 0] : c \in LEDColors, b \in Brightnesses}
      \cup {[color |-> "white", brightness |-> None, fault |-> f] : f \in LedFaults("set_color")}

\* The calls of set_state: every state and one that does not exist, a colour
\* that does not exist, and a PinDriver call that raises.
SetStateCalls ==
    {[state |-> st, color |-> "green", brightness |-> None, fault |-> 0] :
         st \in LEDStates \cup {"dim"}}
      \cup {[state |-> "on", color |-> "pink", brightness |-> None, fault |-> 0]}
      \cup {[state |-> "on", color |-> "magenta", brightness |-> 0, fault |-> f] :
                f \in LedFaults("set_state")}

\* No lifecycle call made yet.
NoCalls == [last |-> "none", ok |-> FALSE, ever |-> FALSE]

InitDevice ==
    /\ heap \in {<<DHT11Sensor_init("dht11_sensor")>>, <<RGBLEDIndicator_init("rgb_led")>>}
    /\ devices = EmptyMap
    /\ mgr_initialized = FALSE
    /\ hal_devices = EmptyMap
    /\ hal_initialized = FALSE
    /\ current_status = "None"
    /\ config = DefaultSensorConfig
    /\ now = StartTime
    /\ env \in {e \in Envs : e.dht = e.gpio}
    /\ obs = [op |-> "new"]
    /\ hist = NoCalls

DeviceFrame ==
    UNCHANGED <<devices, mgr_initialized, hal_devices, hal_initialized, current_status,
                config, env>>

\* What a lifecycle call leaves of the device's configuration, error and
\* indicator state.
Kept(before, after) ==
    /\ after.status = before.status
    /\ after.config = before.config
    /\ after.last_error = before.last_error
    /\ after.current_color = before.current_color
    /\ after.current_state = before.current_state

DevInitialize ==
    \E cfg \in DeviceConfigs(TheDevice), a \in AnswersFor(TheDevice, env, InitFaults) :
        LET Then(r) ==
                /\ heap' = [heap EXCEPT ![1] = r.dev]
                /\ obs' = [op |-> "initialize", ret |-> r.ret, raised |-> r.raised,
                           ready |-> TheDevice.status = "ready", was |-> TheDevice.status]
                /\ hist' = [last |-> "initialize", ok |-> r.ret, ever |-> hist.ever \/ r.ret]
                /\ UNCHANGED now
                /\ DeviceFrame
        IN Then(Device_initialize(TheDevice, cfg, env, a))

DevCleanup ==
    \E a \in CleanupAnswers[TheDevice.device_type] :
        LET Then(r) ==
                /\ heap' = [heap EXCEPT ![1] = r.dev]
                /\ obs' = [op |-> "cleanup", ret |-> r.ret, raised |-> r.raised,
                           ready |-> TheDevice.status = "ready",
                           fresh |-> ~hist.ever, kept |-> Kept(TheDevice, r.dev)]
                /\ hist' = [hist EXCEPT !.last = "cleanup", !.ok = r.ret]
                /\ UNCHANGED now
                /\ DeviceFrame
        IN Then(Device_cleanup(TheDevice, env, a))

DevSelfTest ==
    \E a \in SelfTestAnswers(SelfTestFaults)[TheDevice.device_type] :
        LET Then(r) ==
                /\ heap' = [heap EXCEPT ![1] = r.dev]
                /\ obs' = [op |-> "self_test", ret |-> r.ret, raised |-> r.raised,
                           ready |-> TheDevice.status = "ready", fault |-> a.fault,
                           raw |-> a.raw,
                           reads |-> IF "reads" \in DOMAIN r THEN r.reads ELSE 0]
                /\ UNCHANGED <<now, hist>>
                /\ DeviceFrame
        IN Then(Device_self_test(TheDevice, env, a))

DevSetConfig ==
    \E cfg \in DeviceConfigs(TheDevice) \ {EmptyMap} :
        /\ heap' = [heap EXCEPT ![1] = IHALDevice_set_config(TheDevice, cfg)]
        /\ obs' = [op |-> "set_config", ready |-> TheDevice.status = "ready"]
        /\ UNCHANGED <<now, hist>>
        /\ DeviceFrame

\* set_error(error) on a device that is in Error: the cause is recorded
\* again.
DevSetError ==
    /\ TheDevice.status = "error"
    /\ heap' = [heap EXCEPT ![1] = IHALDevice_set_error(TheDevice, "hardware")]
    /\ obs' = [op |-> "set_error", ready |-> TheDevice.status = "ready"]
    /\ UNCHANGED <<now, hist>>
    /\ DeviceFrame

\* Every raw read the call made raised.
BusFailed(script, reads) ==
    env.dht /\ reads > 0 /\ \A i \in 1 .. reads : RawAt(script, i).exc

\* The end of a read call; every statement of the method is inside its try.
ReadDone(op, script, r) ==
    /\ heap' = [heap EXCEPT ![1] = r.dev]
    /\ now' = now + r.slept
    /\ obs' = [op |-> op, ret |-> r.ret, raised |-> FALSE,
               ready |-> TheDevice.status = "ready", drove |-> 0, reads |-> r.reads,
               hit |-> BusFailed(script, r.reads), after |-> obs.op]
    /\ UNCHANGED hist
    /\ DeviceFrame

DevReadValues ==
    /\ TheDevice.device_type = "sensor"
    /\ ClockOpen
    /\ \E script \in DeviceScripts :
        ReadDone("read_values", script,
                 DHT11Sensor_read_values(TheDevice, now, env.dht, script))

DevReadValue ==
    /\ TheDevice.device_type = "sensor"
    /\ ClockOpen
    /\ \E script \in DeviceScripts, sensor_type \in {"temperature", "humidity", "pressure"} :
        ReadDone("read_value", script,
                 DHT11Sensor_read_value(TheDevice, sensor_type, now, env.dht, script))

\* The end of an indicator call; `full` is the number of PinDriver calls the
\* operation makes when none of them raises, `more` what else the call is
\* remembered by.
LedDone(op, color, brightness, fault, full, r, more) ==
    /\ heap' = [heap EXCEPT ![1] = r.dev]
    /\ obs' = [op |-> op, color |-> color, brightness |-> brightness, ret |-> r.ret,
               raised |-> FALSE, ready |-> TheDevice.status = "ready",
               drove |-> Len(r.writes), reads |-> 0,
               hit |-> fault # 0 /\ fault <= full] @@ more
    /\ UNCHANGED <<now, hist>>
    /\ DeviceFrame

DevSetColor ==
    /\ TheDevice.device_type = "indicator"
    /\ \E c \in SetColorCalls :
        LedDone("set_color", c.color, c.brightness, c.fault,
                Len(RGBLEDIndicator_set_color(TheDevice, c.color, c.brightness, env.gpio, 0).writes),
                RGBLEDIndicator_set_color(TheDevice, c.color, c.brightness, env.gpio, c.fault),
                EmptyMap)

DevClear ==
    /\ TheDevice.device_type = "indicator"
    /\ \E fault \in LedFaults("clear") :
        LedDone("clear", "off", None, fault,
                Len(RGBLEDIndicator_clear(TheDevice, env.gpio, 0).writes),
                RGBLEDIndicator_clear(TheDevice, env.gpio, fault),
                [was |-> TheDevice.current_state, shown |-> TheDevice.current_color])

DevSetState ==
    /\ TheDevice.device_type = "indicator"
    /\ \E c \in SetStateCalls :
        LedDone("set_state", c.color, c.brightness, c.fault,
                Len(RGBLEDIndicator_set_state(TheDevice, c.state, c.color, c.brightness,
                                              env.gpio, 0).writes),
                RGBLEDIndicator_set_state(TheDevice, c.state, c.color, c.brightness, env.gpio,
                                          c.fault),
                EmptyMap)

DevBlink ==
    /\ TheDevice.device_type = "indicator"
    /\ \E times \in 0 .. MaxBlinks, fault \in LedFaults("blink") :
        LET Then(r) ==
                LedDone("blink", "red", None, fault,
                        Len(RGBLEDIndicator_blink_color(TheDevice, "red", times, env.gpio,
                                                        0).writes),
                        r, [times |-> times, steps |-> r.steps,
                            shown |-> TheDevice.current_color])
        IN Then(RGBLEDIndicator_blink_color(TheDevice, "red", times, env.gpio, fault))

DevBreathe ==
    /\ TheDevice.device_type = "indicator"
    /\ \E fault \in LedFaults("breathe") :
        LET Then(r) ==
                LedDone("breathe", "blue", None, fault,
                        Len(RGBLEDIndicator_breath_color(TheDevice, "blue", env.gpio, 0).writes),
                        r, [levels |-> r.levels])
        IN Then(RGBLEDIndicator_breath_color(TheDevice, "blue", env.gpio, fault))

\* Time passes between two calls on the sensor.
DevTick ==
    /\ TheDevice.device_type = "sensor"
    /\ ClockOpen
    /\ now' = now + 1
    /\ obs' = [op |-> "sleep"]
    /\ UNCHANGED <<heap, hist>>
    /\ DeviceFrame

NextDevice ==
    \/ DevInitialize
    \/ DevCleanup
    \/ DevSelfTest
    \/ DevSetConfig
    \/ DevSetError
    \/ DevReadValues
    \/ DevReadValue
    \/ DevSetColor
    \/ DevClear
    \/ DevSetState
    \/ DevBlink
    \/ DevBreathe
    \/ DevTick

SpecDevice == InitDevice /\ [][NextDevice]_vars

ReadinessOps ==
    {"read_values", "read_value", "set_state", "set_color", "clear", "blink", "breathe",
     "self_test"}

FailureValue(op) ==
    CASE op = "read_values" -> EmptyMap
      [] op = "read_value" -> None
      [] OTHER -> FALSE

\* C16: an operation that requires readiness fails fast on a device that is
\* not Ready: read_values returns the empty mapping and read_value no value,
\* with no raw bus read and last_reading_time unchanged; set_state,
\* set_color, clear, blink, breathe and self_test return false without
\* driving a channel and without changing colour or mode; none raises.
C16_FailFast ==
    [][(TheDevice.status # "ready" /\ obs'.op \in ReadinessOps) =>
        /\ obs'.ret = FailureValue(obs'.op)
        /\ ~obs'.raised
        /\ heap' = heap
        /\ now' = now
        /\ obs'.op # "self_test" => (obs'.drove = 0 /\ obs'.reads = 0)]_vars

C16_Witness ==
    /\ obs.op = "set_color" /\ ~obs.ready
    /\ TheDevice.status = "error" /\ TheDevice.pwm_objects # {}
    /\ obs.ret = FALSE /\ obs.drove = 0
    /\ TheDevice.current_color = "off"

\* The operations of C17, and a hardware fault inside one of them: a
\* PinDriver call that raised, or every raw read of the call raising.
FaultOps == {"set_color", "clear", "blink", "breathe", "read_values", "read_value"}

FaultInside == obs.op \in FaultOps /\ obs.ready /\ obs.hit

\* C17: on a hardware fault inside a device operation (a PinDriver call
\* failing during set_color, clear, blink or breathe, the sensor bus raising
\* during a read) the operation returns its failure value instead of raising,
\* and the device's status becomes Error with the cause in last_error.
C17_FaultBecomesError ==
    FaultInside =>
        /\ ~obs.raised
        /\ obs.ret = FailureValue(obs.op)
        /\ TheDevice.status = "error"
        /\ TheDevice.last_error # "None"

\* What the operations do on a fault: nothing is raised, and the status and
\* last_error stay as they were.
C17_FaultKeepsReady ==
    FaultInside =>
        /\ ~obs.raised
        /\ TheDevice.status = "ready"
        /\ obs.op # "breathe" => obs.ret = FailureValue(obs.op)

C17_Witness ==
    /\ FaultInside /\ obs.op = "set_color"
    /\ obs.ret = FALSE /\ obs.drove > 0
    /\ TheDevice.status = "ready" /\ TheDevice.last_error = "None"

\* C18: last_error is cleared by, and only by, a successful re-initialize:
\* after any initialize that returned true last_error is empty, and no other
\* operation (cleanup, reads, indicator operations, set_config) resets it.
C18_ClearedByReinitialize ==
    [][/\ (obs'.op = "initialize" /\ obs'.ret) => TheDevice'.last_error = "None"
       /\ (obs'.op # "initialize" /\ TheDevice.last_error # "None") =>
            TheDevice'.last_error = TheDevice.last_error]_vars

\* What the code does with a recorded error: no operation resets it.
C18_NeverCleared ==
    [][TheDevice.last_error # "None" => TheDevice'.last_error # "None"]_vars

C18_Witness ==
    /\ obs.op = "initialize" /\ obs.ret
    /\ TheDevice.status = "ready"
    /\ TheDevice.last_error # "None"

\* cleanup() on a device no initialize of which has returned true.
FreshCleanup == obs.op = "cleanup" /\ obs.fresh

\* C19: cleanup() on a device that was never successfully initialized
\* (Uninitialized, or Error after a failed initialize) returns true and is a
\* no-op: it raises nothing and leaves status, configuration, last_error and
\* the indicator's colour and mode as they were.
C19_CleanupNoOp ==
    FreshCleanup => (obs.ret /\ ~obs.raised /\ obs.kept)

\* What the code does: nothing is raised, and a cleanup that returns true
\* leaves the device Uninitialized, whatever its status was.
C19_CleanupResets ==
    FreshCleanup => (~obs.raised /\ (obs.ret => TheDevice.status = "uninitialized"))

C19_Witness ==
    /\ FreshCleanup /\ obs.ret /\ ~obs.kept
    /\ TheDevice.status = "uninitialized"
    /\ TheDevice.last_error # "None"

\* The channels of each colour: yellow is red and green, cyan green and
\* blue, magenta red and blue, white all three, off none.
FixedMix ==
    [red |-> {"red"}, green |-> {"green"}, blue |-> {"blue"},
     yellow |-> {"red", "green"}, cyan |-> {"green", "blue"}, magenta |-> {"red", "blue"},
     white |-> {"red", "green", "blue"}, off |-> {}]

\* C20: for every colour c of the eight and every brightness b, a successful
\* set_color(c, b) on a Ready indicator leaves each channel at b if it is in
\* the fixed mix of c and at 0 otherwise; a successful clear() after any
\* colour leaves all three channels at 0.  The channels are the PWM objects
\* the indicator holds: all three with the PinDriver present, none without.
C20_ColorMixing ==
    /\ (obs.op \in {"set_color", "clear"} /\ obs.ret /\ env.gpio) =>
            TheDevice.pwm_objects = Channels
    /\ (obs.op = "set_color" /\ obs.ret /\ obs.brightness # None) =>
            /\ \A ch \in TheDevice.pwm_objects :
                TheDevice.duty[ch] = IF ch \in FixedMix[obs.color] THEN obs.brightness ELSE 0
            /\ TheDevice.current_color = obs.color
    /\ (obs.op = "clear" /\ obs.ret) =>
            /\ \A ch \in TheDevice.pwm_objects : TheDevice.duty[ch] = 0
            /\ TheDevice.current_color = "off"

C20_Witness ==
    /\ obs.op = "set_color" /\ obs.ready /\ obs.ret
    /\ obs.color = "yellow" /\ obs.brightness = HalfBrightness
    /\ TheDevice.pwm_objects = Channels
    /\ TheDevice.duty = [red |-> HalfBrightness, green |-> HalfBrightness, blue |-> 0]

\* C21 as stated: after any clear() all three channels are 0, the colour is
\* off and the mode is off, whatever the mode and the device status were
\* before the call.
C21_AsStated ==
    obs.op = "clear" =>
        /\ TheDevice.duty = AllOff
        /\ TheDevice.current_color = "off"
        /\ TheDevice.current_state = "off"

\* C21: clear() returns true exactly on a Ready indicator whose PinDriver
\* does not fail, from whatever mode, and then all three channels are 0, the
\* colour is off and the mode is off; on an indicator that is not Ready it
\* drives no channel, and whenever it returns false colour and mode are as
\* they were.
C21_ClearWhenReady ==
    obs.op = "clear" =>
        /\ obs.ret = (obs.ready /\ ~obs.hit)
        /\ obs.ret => /\ TheDevice.duty = AllOff
                      /\ TheDevice.current_color = "off"
                      /\ TheDevice.current_state = "off"
        /\ ~obs.ready => obs.drove = 0
        /\ ~obs.ret => /\ TheDevice.current_color = obs.shown
                       /\ TheDevice.current_state = obs.was

\* A lit indicator in mode blinking is cleared.
C21_Witness ==
    /\ obs.op = "clear"
    /\ obs.ret
    /\ env.gpio
    /\ obs.was = "blinking"
    /\ obs.shown = "red"

\* =========================================== claims on the colour calls
\* The channels lit after the first k channel writes of the last call.
LitAfter(k) ==
    LET written == {obs.writes[i][1] : i \in 1 .. k}
        Last(ch) == CHOOSE i \in 1 .. k :
                        /\ obs.writes[i][1] = ch
                        /\ \A j \in (i + 1) .. k : obs.writes[j][1] # ch
    IN (obs.lit \ written) \cup {ch \in written : obs.writes[Last(ch)][2] > 0}

Blinked == obs.op = "blink" /\ obs.ready /\ obs.ret

\* Step i of rounds of [set, hold, clear, hold].
RoundStep(i) ==
    CASE i % 4 = 1 -> "set"
      [] i % 4 = 3 -> "clear"
      [] OTHER -> "hold"

\* C23 as stated: for every times >= 0 a successful blink makes exactly
\* `times` rounds of [set colour, hold, clear, hold] and returns with all
\* three channels 0, the colour off and the mode blinking.
C23_AsStated ==
    Blinked =>
        /\ obs.steps = [i \in 1 .. 4 * obs.times |-> RoundStep(i)]
        /\ TheDevice.duty = AllOff
        /\ TheDevice.current_color = "off"
        /\ TheDevice.current_state = "blinking"

\* C23: a successful blink with times >= 1 makes `times` rounds of [set
\* colour, hold, clear] with one hold between two rounds and none after the
\* last, and returns with all three channels 0, the colour off and the mode
\* blinking; with times = 0 it makes no call at all and only the mode
\* becomes blinking.
C23_BlinkRounds ==
    Blinked =>
        /\ TheDevice.current_state = "blinking"
        /\ IF obs.times >= 1
           THEN /\ obs.steps = [i \in 1 .. 4 * obs.times - 1 |-> RoundStep(i)]
                /\ TheDevice.duty = AllOff
                /\ TheDevice.current_color = "off"
           ELSE /\ obs.steps = <<>>
                /\ obs.drove = 0
                /\ TheDevice.current_color = obs.shown

\* The longest blink, over a colour that was showing.
C23_Witness ==
    /\ Blinked
    /\ env.gpio
    /\ obs.times = MaxBlinks
    /\ obs.shown = "white"

\* A breath_color call on a Ready indicator that returned true.
Breathed == obs.op = "breathe" /\ obs.ready /\ obs.ret

\* C24 as stated: the brightnesses of a breathing run start at 0, rise by a
\* constant step to 100, fall by the same step back to 0 and stay within
\* 0..100; the indicator is then cleared and the mode is breathing.
C24_AsStated ==
    Breathed =>
        /\ \E step \in 1 .. 100, top \in 1 .. Len(obs.levels) :
              /\ obs.levels[1] = 0
              /\ obs.levels[top] = 100
              /\ obs.levels[Len(obs.levels)] = 0
              /\ \A i \in 1 .. (top - 1) : obs.levels[i + 1] = obs.levels[i] + step
              /\ \A i \in top .. (Len(obs.levels) - 1) :
                    obs.levels[i + 1] = obs.levels[i] - step
        /\ \A i \in 1 .. Len(obs.levels) : obs.levels[i] \in 0 .. 100
        /\ TheDevice.duty = AllOff
        /\ TheDevice.current_state = "breathing"

\* C24: the forty brightnesses of a breathing run are 5, 10, ... 100 and
\* then 100, 95, ... 5: they start and end at 5, 100 is set twice, every
\* other move is 5 up or 5 down, and all are within 0..100; the mode is then
\* breathing, and the indicator is cleared unless the PinDriver failed in
\* the final clear.
C24_Ramp ==
    Breathed =>
        /\ obs.levels = [i \in 1 .. 40 |-> IF i <= 20 THEN 5 * i ELSE 5 * (41 - i)]
        /\ \A i \in 1 .. Len(obs.levels) : obs.levels[i] \in 0 .. 100
        /\ TheDevice.current_state = "breathing"
        /\ ~obs.hit => (TheDevice.duty = AllOff /\ TheDevice.current_color = "off")

\* A whole ramp on the PinDriver.
C24_Witness ==
    /\ Breathed
    /\ env.gpio
    /\ ~obs.hit
    /\ obs.drove = 40 * 6 + 3

\* The LED's self-test ran on a Ready indicator and a PinDriver call of its
\* second colour-set, green, raised.
SecondSetFailed ==
    /\ obs.op = "self_test"
    /\ TheDevice.device_type = "indicator"
    /\ obs.ready
    /\ obs.fault \in 7 .. 12

\* C25: when the second colour-set of the LED's self-test fails, self_test
\* returns false without raising and the indicator ends cleared: all three
\* channels 0 and the colour off.
C25_EndsCleared ==
    SecondSetFailed =>
        /\ ~obs.ret
        /\ ~obs.raised
        /\ TheDevice.duty = AllOff
        /\ TheDevice.current_color = "off"

\* The self-test failed in its second colour-set and the red of its first
\* step is still lit and recorded.
C25_Witness ==
    /\ SecondSetFailed
    /\ ~obs.ret
    /\ ~obs.raised
    /\ TheDevice.duty["red"] > 0
    /\ TheDevice.current_color = "red"
    /\ TheDevice.current_state = "on"

\* ================================================ claims on the self-tests
\* C26: the sensor's self_test makes exactly one raw read on a Ready sensor
\* (none otherwise), waits for nothing, returns whether the read brought
\* both values, and changes nothing of the sensor, last_reading_time
\* included; so a read_values() that follows it at once reads the bus
\* whenever the last accepted reading is min_read_interval or more ago.
C26_SelfTestReadsOnce ==
    [][ /\ (obs'.op = "self_test" /\ TheDevice.device_type = "sensor") =>
              /\ obs'.reads = IF TheDevice.status = "ready" THEN 1 ELSE 0
              /\ now' = now
              /\ obs'.ret = (/\ TheDevice.status = "ready"
                             /\ env.dht => (/\ ~obs'.raw.exc
                                            /\ obs'.raw.temp # None
                                            /\ obs'.raw.hum # None))
              /\ heap'[1].last_reading_time = heap[1].last_reading_time
              /\ heap' = heap
        /\ (/\ obs'.op = "read_values"
            /\ obs.op = "self_test"
            /\ TheDevice.status = "ready"
            /\ now - TheDevice.last_reading_time >= TheDevice.min_read_interval) =>
              obs'.reads >= 1 ]_vars

\* A read_values() right after a self-test, no time passing in between,
\* reads the bus and brings values.
C26_Witness ==
    /\ obs.op = "read_values"
    /\ obs.after = "self_test"
    /\ env.dht
    /\ obs.reads >= 1
    /\ obs.ret # EmptyMap
    /\ TheDevice.last_reading_time = now

\* ===================================================== the process, main()
\* hist is where main() stands: pc, the command line's mode, the monitoring
\* interval, the run_once calls made, whether initialize raised, whether the
\* loop was interrupted, the cleanup passes made and the devices whose
\* self-test failed.
MainModes == {"--test", "--status", "loop"}

InitMain ==
    /\ heap = <<>>
    /\ devices = EmptyMap
    /\ mgr_initialized = FALSE
    /\ hal_devices = EmptyMap
    /\ hal_initialized = FALSE
    /\ current_status = "None"
    /\ config = DefaultSensorConfig
    /\ now = StartTime
    /\ env \in Envs
    /\ obs = [op |-> "new"]
    /\ hist \in {[pc |-> "initialize", mode |-> m, interval |-> i, runs |-> 0,
                   init_failed |-> FALSE, cancelled |-> FALSE, passes |-> 0,
                   failed_tests |-> {}] : m \in MainModes, i \in {1, MaxInterval}}

\* monitor.initialize() in main: when it raises, main goes to its finally.
MainInitialize ==
    /\ hist.pc = "initialize"
    /\ \E answers \in AnswerMaps(FacadeTypes(World), InitAnswers(InitFaults)),
          tests \in AnswerMaps(FacadeTypes(World), SelfTestAnswers(InitFaults)) :
        LET Then(r) ==
                /\ SetWorld(r.w)
                /\ obs' = [op |-> "initialize", raised |-> r.raised,
                           hal_ok |-> r.w.hal_initialized, test_results |-> r.test_results]
                /\ hist' = [hist EXCEPT
                               !.pc = IF r.raised THEN "finally"
                                      ELSE IF hist.mode = "--status" THEN "status"
                                      ELSE IF hist.mode = "--test" THEN "test"
                                      ELSE "cycle",
                               !.init_failed = r.raised,
                               !.failed_tests = {id \in DOMAIN r.test_results :
                                                    ~r.test_results[id]}]
                /\ UNCHANGED <<current_status, config, now, env>>
        IN Then(HALSensorMonitor_initialize(World, config, answers, tests, env))

\* --status: the statuses are printed and the process exits.
MainShowStatus ==
    /\ hist.pc = "status"
    /\ obs' = [op |-> "status", ret |-> HALSensorMonitor_get_device_status(World)]
    /\ hist' = [hist EXCEPT !.pc = "finally"]
    /\ UNCHANGED <<heap, devices, mgr_initialized, hal_devices, hal_initialized,
                   current_status, config, now, env>>

\* One run_once().
Cycle(op, next) ==
    \E script \in MonitorScripts, fault \in UpdateFaults :
        LET Then(r) ==
                /\ SetWorld(r.w)
                /\ current_status' = r.current_status
                /\ now' = now + r.slept
                /\ obs' = [op |-> op, some |-> r.some, status |-> r.updates[1]]
                /\ hist' = [hist EXCEPT !.pc = next, !.runs = @ + 1]
                /\ UNCHANGED <<config, env>>
        IN Then(HALSensorMonitor_run_once(World, config, current_status, now, script,
                                          ClearFault(fault), SetFault(fault), env))

\* --test: one run_once().
MainTest == hist.pc = "test" /\ Cycle("run_once", "finally")

\* run_continuous: run_once() ...
LoopCycle == hist.pc = "cycle" /\ hist.runs < MaxCycles /\ Cycle("cycle", "sleep")

\* ... and time.sleep(monitor_interval).
LoopSleep ==
    /\ hist.pc = "sleep"
    /\ now' = now + hist.interval
    /\ obs' = [op |-> "sleep"]
    /\ hist' = [hist EXCEPT !.pc = "cycle"]
    /\ UNCHANGED <<heap, devices, mgr_initialized, hal_devices, hal_initialized,
                   current_status, config, env>>

\* KeyboardInterrupt between two steps of the loop.
LoopInterrupt ==
    /\ hist.pc \in {"cycle", "sleep"}
    /\ obs' = [op |-> "interrupt"]
    /\ hist' = [hist EXCEPT !.pc = "loop_finally", !.cancelled = TRUE]
    /\ UNCHANGED <<heap, devices, mgr_initialized, hal_devices, hal_initialized,
                   current_status, config, now, env>>

\* One monitor.cleanup().
CleanupPass(op, next) ==
    \E answers \in AnswerMaps(RegisteredTypes(World), CleanupAnswers) :
        LET Then(r) ==
                /\ SetWorld(r.w)
                /\ obs' = [op |-> op, calls |-> r.calls, ret |-> r.ret]
                /\ hist' = [hist EXCEPT !.pc = next, !.passes = @ + 1]
                /\ UNCHANGED <<current_status, config, now, env>>
        IN Then(HALSensorMonitor_cleanup(World, answers, env))

\* The finally of run_continuous, after which it returns into main.
LoopCleanup == hist.pc = "loop_finally" /\ CleanupPass("loop_cleanup", "finally")

\* The finally of main.
MainCleanup == hist.pc = "finally" /\ CleanupPass("cleanup", "exited")

NextMain ==
    \/ MainInitialize
    \/ MainShowStatus
    \/ MainTest
    \/ LoopCycle
    \/ LoopSleep
    \/ LoopInterrupt
    \/ LoopCleanup
    \/ MainCleanup

SpecMain == InitMain /\ [][NextMain]_vars

\* ================================================= claims on the process
\* The status of the device registered under id.
StatusOf(h, id) == h[devices[id]].status

\* C27 as stated: after the cleanup pass that ends the interrupted loop
\* every registered device has status Uninitialized.
C27_AsStated ==
    obs.op = "loop_cleanup" =>
        \A id \in DOMAIN devices : StatusOf(heap, id) = "uninitialized"

\* C27: the loop alternates one run_once and one sleep until it is
\* interrupted; after the interrupt no run_once starts, and the loop returns
\* only through a cleanup pass that calls cleanup once on every registered
\* device; after it every device whose cleanup returned true has status
\* Uninitialized, and a device whose cleanup returned false is an indicator
\* with the status it had.
C27_LoopThenCleanup ==
    [][ /\ (hist.mode = "loop" /\ hist'.runs # hist.runs) =>
              /\ hist.pc = "cycle"
              /\ ~hist.cancelled
              /\ hist'.runs = hist.runs + 1
              /\ hist'.pc = "sleep"
        /\ (hist.pc = "sleep" /\ ~hist'.cancelled) =>
              (hist'.pc = "cycle" /\ hist'.runs = hist.runs)
        /\ hist.cancelled => hist'.runs = hist.runs
        /\ (hist.pc = "loop_finally" /\ hist'.pc # "loop_finally") =>
              obs'.op = "loop_cleanup"
        /\ obs'.op = "loop_cleanup" =>
              /\ Len(obs'.calls) = Cardinality(DOMAIN devices)
              /\ {obs'.calls[i].id : i \in 1 .. Len(obs'.calls)} = DOMAIN devices
              /\ devices' = devices
              /\ \A i \in 1 .. Len(obs'.calls) :
                    LET id == obs'.calls[i].id
                    IN /\ ~obs'.calls[i].raised
                       /\ IF obs'.calls[i].ret
                          THEN StatusOf(heap', id) = "uninitialized"
                          ELSE /\ heap[devices[id]].device_type = "indicator"
                               /\ StatusOf(heap', id) = StatusOf(heap, id) ]_vars

\* The loop ran as long as it may, was interrupted, and its cleanup pass
\* left the sensor and the LED Uninitialized on real hardware.
C27_Witness ==
    /\ obs.op = "loop_cleanup"
    /\ hist.cancelled
    /\ hist.runs = MaxCycles
    /\ env.gpio /\ env.dht
    /\ DOMAIN devices = {"dht11_sensor", "rgb_led"}
    /\ \A id \in DOMAIN devices : StatusOf(heap, id) = "uninitialized"

\* C28: monitor.initialize() raises exactly when the facade's initialize
\* reported failure, and then main goes to its cleanup: no run_once is
\* made in a process run whose initialize raised; when the facade's
\* initialize succeeded, startup goes on whatever the self-tests returned,
\* and their results are kept.
C28_NoRunAfterFailedInit ==
    [][ /\ obs'.op = "initialize" =>
              /\ obs'.raised = ~obs'.hal_ok
              /\ hist'.init_failed = obs'.raised
              /\ IF obs'.raised
                 THEN hist'.pc = "finally"
                 ELSE /\ hist'.pc \in {"cycle", "test", "status"}
                      /\ DOMAIN obs'.test_results = DOMAIN devices'
                      /\ hist'.failed_tests =
                             {id \in DOMAIN devices' : ~obs'.test_results[id]}
        /\ hist.init_failed =>
              /\ hist'.runs = 0
              /\ hist'.init_failed
              /\ obs'.op \notin {"cycle", "run_once"} ]_vars

\* A process run whose initialize raised has ended without a run_once.
C28_Witness ==
    /\ hist.pc = "exited"
    /\ hist.init_failed
    /\ hist.runs = 0
    /\ hist.passes = 1

\* ================================================ claims on the base class
\* C29: a device in Error becomes Ready only by an initialize that returns
\* true, and every such initialize makes it Ready; reads, set_state and the
\* other indicator calls, self_test, set_config, set_error and cleanup never
\* take it from Error to Ready.
C29_ErrorLeftByInitialize ==
    [][ TheDevice.status = "error" =>
          /\ heap'[1].status = "ready" <=> (obs'.op = "initialize" /\ obs'.ret)
          /\ obs'.op \notin {"initialize", "cleanup"} => heap'[1].status = "error" ]_vars

\* A device in Error was initialized again and is Ready.
C29_Witness ==
    /\ obs.op = "initialize"
    /\ obs.was = "error"
    /\ obs.ret
    /\ TheDevice.status = "ready"

\* ================================================ a device's configuration
\* The options a caller sets, and the keys it asks for: one that may be
\* there, one that never is, and the empty key.
ConfigKeys == {"max_retries", "retry_delay"}
ConfigValues == 1 .. MaxRetries
ConfigInputs == UNION {[ks -> ConfigValues] : ks \in SUBSET ConfigKeys}
AskedKeys == ConfigKeys \cup {"pin", ""}

InitConfig ==
    /\ heap = <<DHT11Sensor_init("dht11_sensor")>>
    /\ devices = EmptyMap
    /\ mgr_initialized = FALSE
    /\ hal_devices = EmptyMap
    /\ hal_initialized = FALSE
    /\ current_status = "None"
    /\ config = DefaultSensorConfig
    /\ now = StartTime
    /\ env \in Envs
    /\ obs = [op |-> "new"]
    /\ hist = <<>>

ConfigFrame ==
    UNCHANGED <<devices, mgr_initialized, hal_devices, hal_initialized, current_status,
                config, now, env, hist>>

ConfigSet ==
    \E c \in ConfigInputs :
        /\ heap' = [heap EXCEPT ![1] = IHALDevice_set_config(TheDevice, c)]
        /\ obs' = [op |-> "set_config", arg |-> c]
        /\ ConfigFrame

\* get_config(key), and get_config() as the key "".
ConfigGet ==
    \E key \in AskedKeys :
        /\ obs' = [op |-> "get_config", key |-> key,
                   ret |-> IHALDevice_get_config(TheDevice, key)]
        /\ UNCHANGED heap
        /\ ConfigFrame

\* The caller writes an entry into the mapping get_config() gave it.
ConfigChangeReturned ==
    /\ obs.op \in {"get_config", "changed"}
    /\ obs.key = ""
    /\ \E c \in ConfigInputs \ {EmptyMap} :
        /\ obs' = [obs EXCEPT !.op = "changed", !.ret.value = dict_update(@, c)]
        /\ heap' = IF obs.ret.alias
                   THEN [heap EXCEPT ![1].config = dict_update(@, c)]
                   ELSE heap
        /\ ConfigFrame

NextConfig == ConfigSet \/ ConfigGet \/ ConfigChangeReturned

SpecConfig == InitConfig /\ [][NextConfig]_vars

\* C30 as stated: get_config(key) for a key that is absent returns no value.
C30_AsStated ==
    (obs.op = "get_config" /\ obs.key \notin DOMAIN TheDevice.config) =>
        (obs.key # "" /\ obs.ret = None)

\* C30: set_config(c) leaves every key not in c as it was and sets every
\* key of c to c's value, touching nothing else of the device; get_config()
\* returns the configuration's entries in a mapping of its own, so that
\* writing into it changes nothing of the device; get_config(key) changes
\* nothing and returns the value under key, or no value for a non-empty key
\* that is absent; the empty key is answered like no key.
C30_ConfigMergeAndCopy ==
    [][ /\ obs'.op = "set_config" =>
              /\ DOMAIN heap'[1].config = DOMAIN heap[1].config \cup DOMAIN obs'.arg
              /\ \A k \in DOMAIN heap'[1].config :
                    heap'[1].config[k] = IF k \in DOMAIN obs'.arg THEN obs'.arg[k]
                                         ELSE heap[1].config[k]
              /\ heap' = [heap EXCEPT ![1].config = heap'[1].config]
        /\ obs'.op = "get_config" =>
              /\ heap' = heap
              /\ IF obs'.key = ""
                 THEN obs'.ret.value = heap[1].config
                 ELSE IF obs'.key \in DOMAIN heap[1].config
                 THEN obs'.ret = heap[1].config[obs'.key]
                 ELSE obs'.ret = None
        /\ obs'.op = "changed" => heap' = heap ]_vars

\* The mapping get_config() returned was written to and differs from the
\* configuration, which has entries of its own.
C30_Witness ==
    /\ obs.op = "changed"
    /\ TheDevice.config = [max_retries |-> 1]
    /\ obs.ret.value = [max_retries |-> MaxRetries, retry_delay |-> 1]

\* ============================================ defaults of the configuration
\* The options given to initialize: every key absent, zero, or a value.
GivenOptions(dev) ==
    IF dev.device_type = "sensor"
    THEN UNION {[ks -> {0, 1}] :
                   ks \in SUBSET {"max_retries", "retry_delay", "min_read_interval"}}
    ELSE {EmptyMap, [brightness |-> 0], [brightness |-> HalfBrightness]}

InitDefaults ==
    /\ heap \in {<<DHT11Sensor_init("dht11_sensor")>>, <<RGBLEDIndicator_init("rgb_led")>>}
    /\ devices = EmptyMap
    /\ mgr_initialized = FALSE
    /\ hal_devices = EmptyMap
    /\ hal_initialized = FALSE
    /\ current_status = "None"
    /\ config = DefaultSensorConfig
    /\ now = StartTime
    /\ env \in {e \in Envs : e.dht = e.gpio}
    /\ obs = [op |-> "new"]
    /\ hist = <<>>

DefaultsInitialize ==
    \E cfg \in GivenOptions(TheDevice), a \in AnswersFor(TheDevice, env, InitFaults) :
        LET Then(r) ==
                /\ heap' = [heap EXCEPT ![1] = r.dev]
                /\ obs' = [op |-> "initialize", given |-> cfg, ret |-> r.ret]
                /\ UNCHANGED <<devices, mgr_initialized, hal_devices, hal_initialized,
                               current_status, config, now, env, hist>>
        IN Then(Device_initialize(TheDevice, cfg, env, a))

NextDefaults == DefaultsInitialize

SpecDefaults == InitDefaults /\ [][NextDefaults]_vars

\* The value in effect for a key: the configured one when the key is
\* present, else the default.
Effective(dev, key, default) ==
    IF key \in DOMAIN dev.config THEN dev.config[key] ELSE default

\* C31: after initialize the effective max_retries, retry_delay,
\* min_read_interval and brightness are the configured values whenever the
\* keys are present, a configured 0 included, and the defaults only when the
\* key is absent.
C31_DefaultsOnlyForMissingKeys ==
    obs.op = "initialize" =>
        IF TheDevice.device_type = "sensor"
        THEN /\ TheDevice.max_retries = Effective(TheDevice, "max_retries", DefaultMaxRetries)
             /\ TheDevice.retry_delay = Effective(TheDevice, "retry_delay", DefaultRetryDelay)
             /\ TheDevice.min_read_interval =
                    Effective(TheDevice, "min_read_interval", DefaultMinReadInterval)
        ELSE TheDevice.brightness = Effective(TheDevice, "brightness", DefaultBrightness)

\* A sensor initialized with min_read_interval = 0 keeps the default
\* interval; an LED initialized with brightness = 0 is at full brightness.
C31_Witness ==
    /\ obs.op = "initialize"
    /\ obs.ret
    /\ IF TheDevice.device_type = "sensor"
       THEN /\ obs.given = [min_read_interval |-> 0]
            /\ TheDevice.min_read_interval = DefaultMinReadInterval
       ELSE /\ obs.given = [brightness |-> 0]
            /\ TheDevice.brightness = DefaultBrightness

\* ================================================ the retry loop's winner
\* The configurations of the retry loop: the defaults, one attempt, and
\* MaxRetries attempts.
RetryConfigs ==
    {EmptyMap} \cup
    {[max_retries |-> r, retry_delay |-> MaxDelay, min_read_interval |-> 1] :
        r \in {1, MaxRetries}}

\* What the bus would answer to every attempt the call can make, whether or
\* not the call makes it.
FullScripts(dev) ==
    IF env.dht THEN [1 .. dev.max_retries -> BadReadings \cup TwoReadings]
    ELSE {<<g>> : g \in TwoReadings}

InitRetry ==
    /\ heap = <<DHT11Sensor_init("dht11_sensor")>>
    /\ devices = EmptyMap
    /\ mgr_initialized = FALSE
    /\ hal_devices = EmptyMap
    /\ hal_initialized = FALSE
    /\ current_status = "None"
    /\ config = DefaultSensorConfig
    /\ now = StartTime
    /\ env \in {e \in Envs : ~e.gpio}
    /\ obs = [op |-> "new"]
    /\ hist = <<>>

RetryInitialize ==
    \E cfg \in RetryConfigs :
        LET Then(r) ==
                /\ heap' = [heap EXCEPT ![1] = r.dev]
                /\ obs' = [op |-> "initialize", ret |-> r.ret]
                /\ UNCHANGED <<now, hist>>
                /\ SensorFrame
        IN Then(DHT11Sensor_initialize(TheSensor, cfg, env.dht, TRUE, Reading(0, 1)))

RetryReadValues ==
    /\ ClockOpen
    /\ \E script \in FullScripts(TheSensor) :
        LET Then(r) ==
                /\ heap' = [heap EXCEPT ![1] = r.dev]
                /\ now' = now + r.slept
                /\ obs' = [op |-> "read_values", start |-> now, ret |-> r.ret,
                           reads |-> r.reads, waits |-> r.waits, trace |-> r.trace,
                           ready |-> TheSensor.status = "ready",
                           limited |-> r.limited,
                           script |-> script, first |-> FirstComplete(script)]
                /\ hist' = IF DOMAIN r.ret # {} THEN <<now>> ELSE hist
                /\ SensorFrame
        IN Then(DHT11Sensor_read_values(TheSensor, now, env.dht, script))

\* A read_value() call as the next call sees it.
EarlierValue(o) ==
    IF o.op = "read_value"
    THEN [op |-> o.op, kind |-> o.kind, ret |-> o.ret, start |-> o.start, end |-> o.end]
    ELSE [op |-> o.op]

\* read_value(sensor_type); hist holds the time at which the last call that
\* brought a reading started.
RetryReadValue ==
    /\ ClockOpen
    /\ \E script \in FullScripts(TheSensor),
          sensor_type \in {"temperature", "humidity", "pressure"} :
        LET Then(r) ==
                /\ heap' = [heap EXCEPT ![1] = r.dev]
                /\ now' = now + r.slept
                /\ obs' = [op |-> "read_value", kind |-> sensor_type, start |-> now,
                           end |-> now + r.slept,
                           ret |-> r.ret, reads |-> r.reads,
                           ready |-> TheSensor.status = "ready",
                           last_before |-> TheSensor.last_reading_time,
                           after_accept |-> IF hist = <<>> THEN None ELSE now - hist[1],
                           prev |-> EarlierValue(obs)]
                /\ hist' = IF r.reads > 0 /\ r.ret # None THEN <<now>> ELSE hist
                /\ SensorFrame
        IN Then(DHT11Sensor_read_value(TheSensor, sensor_type, now, env.dht, script))

NextRetry == RetryInitialize \/ RetryReadValues \/ RetryReadValue \/ Tick

SpecRetry == InitRetry /\ [][NextRetry]_vars

\* A read_values() call on a Ready sensor that the minimum interval lets
\* through.
OpenRead == ReadCall /\ obs.ready /\ ~obs.limited

\* C32: in a read_values() call that is not rate-limited, the first raw read
\* at which the bus does not raise and reports both values is the last raw
\* read of the call, no wait follows it, and the returned mapping holds that
\* read's temperature and humidity; every earlier attempt, a raised error or
\* a missing value, was followed by a wait and the next attempt; with no
\* such read among the max_retries attempts, all of them are made.
C32_FirstCompleteWins ==
    OpenRead =>
        IF obs.first > 0
        THEN /\ obs.reads = obs.first
             /\ obs.waits = obs.first - 1
             /\ obs.trace = Alternation(obs.first)
             /\ obs.ret = [temperature |-> obs.script[obs.first].temp,
                           humidity |-> obs.script[obs.first].hum]
        ELSE /\ obs.reads = TheSensor.max_retries
             /\ DOMAIN obs.ret = {}

\* The second raw read won after a first one with the humidity missing, and
\* the bus would have answered a third read with another reading.
C32_Witness ==
    /\ OpenRead /\ env.dht
    /\ obs.script = <<Reading(0, None), Reading(MaxLevel, 0), Reading(0, 1)>>
    /\ obs.reads = 2 /\ obs.waits = 1
    /\ obs.ret = [temperature |-> MaxLevel, humidity |-> 0]

\* ==================================== one monitoring cycle, step by step
\* run_continuous with run_once taken apart into the steps between which
\* the hardware answers: the start of read_values(), each attempt of the
\* retry loop, each wait, the clear of update_led_status, and its set.
NoResult == [some |-> FALSE, temperature |-> None, humidity |-> None]

InitCycle ==
    /\ heap = <<>>
    /\ devices = EmptyMap
    /\ mgr_initialized = FALSE
    /\ hal_devices = EmptyMap
    /\ hal_initialized = FALSE
    /\ current_status = "None"
    /\ config = DefaultSensorConfig
    /\ now = StartTime
    /\ env \in {e \in Envs : e.dht = e.gpio}
    /\ obs = [op |-> "new"]
    /\ hist \in {[pc |-> "initialize", interval |-> i, runs |-> 0, cancelled |-> FALSE,
                   attempt |-> 0, start |-> 0, reads |-> 0, clears |-> 0, sets |-> 0,
                   result |-> NoResult, status |-> "None"] : i \in {1, MaxInterval}}

\* monitor.initialize() with self-tests that pass; when it raises the loop
\* is not entered.
CycleInitialize ==
    /\ hist.pc = "initialize"
    /\ \E answers \in AnswerMaps(FacadeTypes(World), InitAnswers(InitFaults)) :
        LET Then(r) ==
                /\ SetWorld(r.w)
                /\ obs' = [op |-> "initialize", raised |-> r.raised]
                /\ hist' = [hist EXCEPT !.pc = IF r.raised THEN "finally" ELSE "cycle"]
                /\ UNCHANGED <<current_status, config, now, env>>
        IN Then(HALSensorMonitor_initialize(World, config, answers,
                                            [id \in DOMAIN FacadeTypes(World) |-> Calm], env))

MonitoredSensor == heap[HALManager_get_device(World, "dht11_sensor")]

\* What the bus answers to one raw read.
BusAnswers == IF env.dht THEN BadReadings \cup MonitorReadings ELSE MonitorReadings

\* run_once() up to the retry loop: read_sensors(), get_sensor_values() and
\* the tests read_values() makes before its first raw read.
StepBegin ==
    /\ hist.pc = "cycle"
    /\ hist.runs < MaxCycles
    /\ LET obj == HALManager_get_device(World, "dht11_sensor")
           open == /\ hal_initialized
                   /\ IsSensor(World, obj)
                   /\ heap[obj].status = "ready"
                   /\ ~RateLimited(heap[obj], now)
       IN hist' = [hist EXCEPT !.pc = IF open THEN "attempt" ELSE "update",
                               !.attempt = 0, !.start = now, !.reads = 0, !.clears = 0,
                               !.sets = 0, !.result = NoResult]
    /\ obs' = [op |-> "begin"]
    /\ UNCHANGED <<heap, devices, mgr_initialized, hal_devices, hal_initialized,
                   current_status, config, now, env>>

\* One pass of the retry loop's body, or its end.
StepAttempt ==
    /\ hist.pc = "attempt"
    /\ IF hist.attempt >= MonitoredSensor.max_retries
       THEN /\ hist' = [hist EXCEPT !.pc = "update"]
            /\ obs' = [op |-> "exhausted"]
            /\ UNCHANGED heap
       ELSE \E raw \in BusAnswers :
               LET v == DHT11Sensor_read_raw_values(env.dht, raw)
                   w == WaitsBeforeRetry(hist.attempt, MonitoredSensor.max_retries)
                   obj == HALManager_get_device(World, "dht11_sensor")
               IN /\ obs' = [op |-> "attempt", complete |-> IsComplete(v)]
                  /\ IF IsComplete(v)
                     THEN /\ heap' = [heap EXCEPT ![obj].last_reading_time =
                                         NextLastReadingTime(heap[obj], hist.start, v)]
                          /\ hist' = [hist EXCEPT
                                         !.pc = "update", !.reads = @ + 1,
                                         !.result = [some |-> TRUE, temperature |-> v.temp,
                                                     humidity |-> v.hum]]
                     ELSE /\ UNCHANGED heap
                          /\ hist' = [hist EXCEPT
                                         !.pc = IF w THEN "wait" ELSE "attempt",
                                         !.attempt = IF w THEN @ ELSE NextAttempt(@),
                                         !.reads = @ + 1]
    /\ UNCHANGED <<devices, mgr_initialized, hal_devices, hal_initialized, current_status,
                   config, now, env>>

\* time.sleep(retry_delay) at the end of the loop's body.
StepWait ==
    /\ hist.pc = "wait"
    /\ now' = now + MonitoredSensor.retry_delay
    /\ hist' = [hist EXCEPT !.pc = "attempt", !.attempt = NextAttempt(@)]
    /\ obs' = [op |-> "wait"]
    /\ UNCHANGED <<heap, devices, mgr_initialized, hal_devices, hal_initialized,
                   current_status, config, env>>

\* run_once() after read_sensors(): the status, and update_led_status up to
\* its clear_all_indicators(); run_once returns when the status is the
\* current one.
StepUpdate ==
    /\ hist.pc = "update"
    /\ LET status == IF hist.result.some
                     THEN determine_status(config, hist.result.temperature,
                                           hist.result.humidity)
                     ELSE NoDataStatus
       IN IF ~StatusChanged(status, current_status)
          THEN /\ hist' = [hist EXCEPT !.pc = "sleep", !.runs = @ + 1, !.status = status]
               /\ obs' = [op |-> "kept"]
               /\ UNCHANGED <<heap, devices, mgr_initialized, hal_devices, hal_initialized>>
          ELSE \E fault \in {ClearFault(f) : f \in UpdateFaults} :
                  LET Then(c) ==
                          /\ SetWorld(c.w)
                          /\ hist' = [hist EXCEPT !.pc = "set", !.clears = @ + 1,
                                                  !.status = status]
                          /\ obs' = [op |-> "clear", ret |-> c.ret]
                  IN Then(TrustMonitorHAL_clear_all_indicators(World, fault, env))
    /\ UNCHANGED <<current_status, config, now, env>>

\* The rest of update_led_status: set_indicator_state() and the status kept.
StepSet ==
    /\ hist.pc = "set"
    /\ \E fault \in {SetFault(f) : f \in UpdateFaults} :
          LET Then(r) ==
                  /\ SetWorld(r.w)
                  /\ current_status' = StatusAfterSet(current_status, hist.status, r.ret)
                  /\ hist' = [hist EXCEPT !.pc = "sleep", !.sets = @ + 1, !.runs = @ + 1]
                  /\ obs' = [op |-> "set", ret |-> r.ret]
          IN Then(TrustMonitorHAL_set_indicator_state(World, "rgb_led", "on", hist.status,
                                                      None, fault, env))
    /\ UNCHANGED <<config, now, env>>

CycleSteps == StepBegin \/ StepAttempt \/ StepWait \/ StepUpdate \/ StepSet

NextCycle ==
    \/ CycleInitialize
    \/ StepBegin
    \/ StepAttempt
    \/ StepWait
    \/ StepUpdate
    \/ StepSet
    \/ LoopSleep
    \/ LoopInterrupt

\* The loop up to the interrupt that ends it.
SpecCycle == InitCycle /\ [][NextCycle]_vars

\* The interpreter goes on executing a cycle it has begun: a step of the
\* cycle that can be taken is taken.
SpecCycleFair == SpecCycle /\ WF_vars(CycleSteps)

\* A cycle is under way.
InCycle == hist.pc \in {"attempt", "wait", "update", "set"}

C34_IndicatorShowsStatus ==
    (hal_initialized /\ UpdateCall /\ current_status \in Statuses) =>
        /\ TheLed.current_color = current_status
        /\ TheLed.current_state = "on"

\* A cycle computed green, the current status, and so left the LED alone,
\* after a cycle whose set of another status had failed: the LED is cleared
\* and dark while current_status names green.
C34_Witness ==
    /\ hal_initialized
    /\ obs.op = "run_once" /\ obs.status = "green" /\ obs.calls = <<>>
    /\ obs.prev.op = "update_led_status" /\ obs.prev.attempted /\ ~obs.prev.success
    /\ current_status = "green"
    /\ TheLed.current_color = "off"
    /\ TheLed.duty = AllOff

\* ================================================== the cause of an Error
\* C35: a device whose status is Error has a recorded cause: last_error is
\* not empty.
C35_ErrorHasCause == TheDevice.status = "error" => TheDevice.last_error # "None"

\* A DHT11 initialize whose test read failed returned false and left the
\* sensor in Error with no last_error.
C35_Witness ==
    /\ obs.op = "initialize" /\ ~obs.ret /\ ~obs.raised
    /\ TheDevice.device_type = "sensor"
    /\ TheDevice.status = "error"
    /\ TheDevice.dht
    /\ TheDevice.last_error = "None"

\* ============================================ read_value and the interval
ReadValueCall == obs.op = "read_value"

\* read_value('humidity') called on a Ready sensor at the moment a
\* read_value('temperature') returned a value.
TemperatureThenHumidity ==
    /\ ReadValueCall /\ obs.ready
    /\ obs.kind = "humidity"
    /\ obs.prev.op = "read_value" /\ obs.prev.kind = "temperature"
    /\ obs.prev.ret # None
    /\ obs.start = obs.prev.end

\* C36 as stated: read_value('temperature') immediately followed by
\* read_value('humidity') yields a value and then no value.
C36_AsStated == TemperatureThenHumidity => obs.ret = None

\* C36: a read_value call on a Ready sensor that starts less than
\* min_read_interval after the start of the last call that brought a reading
\* returns no value, makes no raw read and leaves last_reading_time alone;
\* so does read_value('humidity') at the return of a read_value('temperature')
\* that brought a value and took less than min_read_interval; and a
\* read_value of another kind returns no value, makes no raw read and leaves
\* last_reading_time alone.
C36_ReadValueRateLimited ==
    /\ (/\ ReadValueCall /\ obs.ready
        /\ obs.after_accept # None /\ obs.after_accept < TheSensor.min_read_interval)
          => /\ obs.ret = None
             /\ obs.reads = 0
             /\ TheSensor.last_reading_time = obs.last_before
    /\ (/\ TemperatureThenHumidity
        /\ obs.prev.end - obs.prev.start < TheSensor.min_read_interval)
          => (obs.ret = None /\ obs.reads = 0)
    /\ (ReadValueCall /\ obs.kind \notin {"temperature", "humidity"})
          => /\ obs.ret = None
             /\ obs.reads = 0
             /\ TheSensor.last_reading_time = obs.last_before

\* read_value('temperature') brought a value at its first attempt and the
\* read_value('humidity') that followed at once brought none.
C36_Witness ==
    /\ TemperatureThenHumidity
    /\ obs.prev.end = obs.prev.start
    /\ obs.ret = None /\ obs.reads = 0

\* ================================================ the manager's own flag
\* C37: whenever the manager's initialized flag is true, every registered
\* device has status Ready.
C37_InitializedMeansReady ==
    mgr_initialized => \A id \in DOMAIN devices : StatusOf(heap, id) = "ready"

\* The LED was registered after an initialize_all that returned true for the
\* sensor alone: the flag is true, the sensor Ready, the LED Uninitialized.
C37_Witness ==
    /\ obs.op = "register_device" /\ obs.id = "rgb_led" /\ obs.ret
    /\ mgr_initialized
    /\ DOMAIN devices = {"dht11_sensor", "rgb_led"}
    /\ StatusOf(heap, "dht11_sensor") = "ready"
    /\ StatusOf(heap, "rgb_led") = "uninitialized"

\* ================================================== the facade's own flag
\* What the facade's guarded operations answer in the present state: the
\* values of the sensor, and whether set_indicator_state and
\* clear_all_indicators get as far as the LED.
FacadeAnswers ==
    [values |-> TrustMonitorHAL_get_sensor_values(World, "dht11_sensor", now,
                                                  <<Reading(0, 0)>>, env).ret,
     set |-> TrustMonitorHAL_set_indicator_state(World, "rgb_led", "on", "red", None, 0,
                                                 env).reached,
     clear |-> TrustMonitorHAL_clear_all_indicators(World, 0, env).reached,
     tests |-> TrustMonitorHAL_run_self_tests(World, [id \in DOMAIN devices |-> Calm],
                                              env).results]

Refused == [values |-> EmptyMap, set |-> FALSE, clear |-> FALSE, tests |-> EmptyMap]

\* C38: after an initialize that returned false, or a cleanup, the facade is
\* not initialized and refuses get_sensor_values, set_indicator_state,
\* clear_all_indicators and run_self_tests.
C38_FlagFollowsLastCall ==
    ((obs.op = "initialize" /\ ~obs.ret) \/ obs.op = "cleanup") =>
        (~hal_initialized /\ FacadeAnswers = Refused)

\* An initialize returned false after an earlier one had returned true: the
\* facade still counts as initialized and its operations reach the new LED
\* and run the self-tests.
C38_Witness ==
    /\ obs.op = "initialize" /\ ~obs.ret
    /\ hal_initialized
    /\ FacadeAnswers.set /\ FacadeAnswers.clear
    /\ DOMAIN FacadeAnswers.tests = {"dht11_sensor", "rgb_led"}
    /\ StatusOf(heap, "dht11_sensor") = "error"

\* ================================================ the cleanup pass, twice
\* The cleanup pass of main, right after the one of run_continuous.
SecondPass == obs.op = "loop_cleanup" /\ obs'.op = "cleanup"

AllUninitialized(h) == \A id \in DOMAIN devices : StatusOf(h, id) = "uninitialized"

\* C39 as stated: the second cleanup pass leaves the state of the first,
\* with every device Uninitialized and the HAL not initialized.
C39_AsStated ==
    [][SecondPass =>
          /\ heap' = heap
          /\ AllUninitialized(heap')
          /\ ~hal_initialized' /\ ~mgr_initialized']_vars

\* C39: both cleanup passes return success and no device's cleanup raises;
\* after each the HAL and the manager are not initialized and the facade
\* holds no device; the second pass calls cleanup on every device still
\* registered, and when every cleanup of the first pass returned true it
\* leaves every device, Uninitialized, exactly as the first pass left it.
C39_CleanupTwice ==
    [][SecondPass =>
          /\ obs.ret /\ obs'.ret
          /\ \A i \in 1 .. Len(obs.calls) : ~obs.calls[i].raised
          /\ \A i \in 1 .. Len(obs'.calls) : ~obs'.calls[i].raised
          /\ {obs'.calls[i].id : i \in 1 .. Len(obs'.calls)} = DOMAIN devices
          /\ ~hal_initialized /\ ~mgr_initialized /\ hal_devices = EmptyMap
          /\ ~hal_initialized' /\ ~mgr_initialized' /\ hal_devices' = EmptyMap
          /\ devices' = devices
          /\ (\A i \in 1 .. Len(obs.calls) : obs.calls[i].ret) =>
                /\ heap' = heap
                /\ AllUninitialized(heap')]_vars

\* The loop ran, was interrupted, and both cleanup passes were made on real
\* hardware: the sensor and the LED are Uninitialized.
C39_Witness ==
    /\ obs.op = "cleanup"
    /\ hist.pc = "exited" /\ hist.cancelled /\ hist.passes = 2
    /\ hist.runs >= 1
    /\ env.gpio /\ env.dht
    /\ Len(obs.calls) = 2
    /\ AllUninitialized(heap)

\* ============================================ the indicator after cleanup
\* C40: after RGBLEDIndicator.cleanup() returned true the status is
\* Uninitialized, the current colour is off and the current mode is off,
\* without a PinDriver (simulation) as with one.
C40_CleanupResetsIndicator ==
    (obs.op = "cleanup" /\ obs.ret /\ TheDevice.device_type = "indicator") =>
        /\ TheDevice.status = "uninitialized"
        /\ TheDevice.current_color = "off"
        /\ TheDevice.current_state = "off"

\* cleanup() returned true without a PinDriver on an indicator that was
\* Ready and showing a colour: the status is reset, colour and mode are not.
C40_Witness ==
    /\ obs.op = "cleanup" /\ obs.ret /\ obs.ready
    /\ TheDevice.device_type = "indicator"
    /\ ~env.gpio
    /\ TheDevice.status = "uninitialized"
    /\ TheDevice.current_color # "off"
    /\ TheDevice.current_state = "on"

====
